---- MODULE Spec2Model ----
(***************************************************************************)
(* State-machine model of the pyvisainstrument resource client             *)
(* (VisaResource / GPIBLinkResource): open, close, write, read, query with *)
(* bounded retry, and write_async with *OPC / *ESR? completion polling.    *)
(*                                                                         *)
(* The transport (pyvisa resource) is the environment: every transport     *)
(* operation either succeeds or raises, and a query reply is an arbitrary  *)
(* text.  Texts are sequences of one-character strings so that int(),      *)
(* str.lower() and the bool conversion are computed, not assumed.          *)
(* Time is counted in ticks; time.sleep(d) lasts at least d ticks.         *)
(*                                                                         *)
(* Further specifications over the same variables: WaitSpec / WaitFair,    *)
(* the completion waits (write_async's loop, sync_commands_nonblocking,    *)
(* _writeAsyncSCPI, wait_for_completion); LinkSpec, a query over a link    *)
(* that may deliver a reply late; DaqSpec, the dispatcher of the simulated *)
(* DAQ of the test suite; FacadeSpec, the DAQ facades (SwitchMainFrame,    *)
(* KeysightDAQ) against the simulated DAQ; SimSpec, the dispatchers of the *)
(* simulated DAQ, power supply and network analyser; PsuSpec, KeysightPSU  *)
(* against the simulated power supply; DaqWideSpec, the simulated DAQ with *)
(* ten slots; MoveSpec, its dispatch statement by statement; NetSpec, the  *)
(* run loop of a simulator packet by packet; EcalSpec, the e-cal generator *)
(* of the network analysers; FormSpec, the data format of KeysightVNA      *)
(* against the simulated analyser; RelaySpec, NumatoRelay.set_channel.     *)
(* Each specification keeps the components it does not use at rest.        *)
(***************************************************************************)
EXTENDS Integers, Sequences, FiniteSets, TLC

VARIABLES
    cls,        \* class of the resource object: "VisaResource" | "GPIBLinkResource"
    is_open,    \* self.is_open (self.isOpen)
    resource,   \* self.resource: 0 is None, 1 is an open transport
    leaked,     \* transports that self.resource dropped while they were still open
    pc,         \* position of the calling thread inside the current call
    call,       \* name and arguments of the current (or last) call
    attempts,   \* loop variable of the for-loop of query / write_async
    err,        \* local variable err of query / write_async
    elapsed,    \* time.time() - tic of write_async, in ticks
    log,        \* transport operations and sleeps of the current (or last) call
    replies,    \* query: outcome of every attempt; write_async: polls of the attempt
    outcome,    \* how the last call ended: returned value or raised error
    \* a completion wait of the client, followed by its loop state alone
    waiter,     \* the wait that runs: "none" or the name of the function
    wpc,        \* position of the calling thread inside the wait
    wargs,      \* arguments of the wait: delay, max_attempts, timeout
    tries,      \* loop variable `attempts` of write_async
    wait_time,  \* `elapsed` of write_async, `wait_time` of wait_for_completion
    complete,   \* local `complete` / `isComplete` / `done` of the polling loop
    done_str,   \* the reply of the last poll (`esr`, `msg`, `done_str`)
    wresult,    \* how the wait ended: returned or raised error
    \* the query loop followed over a transport that delays and loses replies
    requests,   \* requests the instrument has received and not answered yet
    inbuf,      \* replies that have reached the client and are not read yet
    qpc,        \* position of the calling thread inside query
    qcall,      \* the current (or last) query call: its number and max_attempts
    qtries,     \* loop variable `attempts` of query
    qresult,    \* how the query ended: the reply returned, or raised
    \* the simulated DAQ (testsuite) and the DAQ facade in front of it
    sim,          \* class of the simulator: testsuite "DummyDAQ" | "DummyInstruments"
    num_slots,    \* self.num_slots (numPorts)
    num_channels, \* self.num_channels (numChannels)
    state,        \* self.state: the state tree of the simulator
    dpc,          \* "idle", "done" when a command or facade call has been served,
                  \* and in a facade call "write" / "query" (line sent) and
                  \* "written" / "answered" (line served)
    dcmd,         \* the last command dispatched: cmd_tree, params, is_query
    dreply,       \* what the dispatcher returned for it, or that it raised
    fcall,        \* the facade call in progress: its name and channel
    fresult,      \* outcome of the facade call
    wire,         \* the command line on the way to the simulator
    recent,       \* per channel, the last open / close made through the facade; of
                  \* KeysightPSU, the set-point call no command has followed yet
    connected,    \* self.connected of the simulator's run loop
    received,     \* the bytes conn.recv has returned so far
    prior_data,   \* self.prior_data: the unterminated end of the last packet
    handed,       \* every command extract_commands has handed out, in order
    dispatched,   \* every command process_packet has dispatched, with its outcome
    outbound,     \* the bytes conn.sendall has put on the wire, in order
    \* the generator perform_ecal_steps (performECalSteps) and its consumer
    gpc,          \* "none", "created", "suspended" at the yield, "finished",
                  \* "raised", or "closed" by the consumer
    locals,       \* the generator's frame: save, num_steps, i
    yielded,      \* the descriptions the generator has yielded, in order
    traffic       \* the commands the VNA has been sent, in order

clientVars == <<cls, is_open, resource, leaked, pc, call, attempts, err,
                elapsed, log, replies, outcome>>

waitVars == <<waiter, wpc, wargs, tries, wait_time, complete, done_str, wresult>>

linkVars == <<requests, inbuf, qpc, qcall, qtries, qresult>>

daqVars == <<sim, num_slots, num_channels, state, dpc, dcmd, dreply, fcall,
            fresult, wire, recent>>

netVars == <<connected, received, prior_data, handed, dispatched, outbound>>

genVars == <<gpc, locals, yielded, traffic>>

vars == <<clientVars, waitVars, linkVars, daqVars, netVars, genVars>>

resourceVars == <<cls, is_open, resource, leaked>>

-----------------------------------------------------------------------------
(* Bounds of the model *)

MaxLeaks == 1          \* open() calls explored on a resource that is already open
MaxAttempts == 2       \* largest max_attempts argument of write_async
MaxQueryAttempts == 3  \* largest max_attempts argument of query
MaxTimeout == 2        \* largest finite timeout argument, in ticks
MaxDelay == 2          \* largest poll interval (delay argument), in ticks
MaxCalls == 2          \* query calls followed on one transport

\* extra ticks one poll cycle may take beyond the sleep
Jitter == {0, 1}

\* cap on the polls of one attempt; only binding when timeout is None
MaxPolls == MaxTimeout + 2

None == -1             \* timeout=None

-----------------------------------------------------------------------------
(* Texts *)

Txt0 == <<"0">>
Txt1 == <<"1">>
Txt5 == <<"5">>
Txt36 == <<"3", "6">>
Txt64 == <<"6", "4">>
Txt65 == <<"6", "5">>
Txt12 == <<"1", "2">>
TxtNO == <<"N", "O">>
TxtFalse == <<"F", "a", "l", "s", "e">>
TxtX == <<"x">>
TxtEmpty == <<>>

\* replies the device may give to *ESR?  (0x24 = 36, 0x05 = 5, 0x40 = 64, 0x41 = 65)
EsrTexts == {Txt0, Txt1, Txt5, Txt36, Txt64, Txt65, TxtX}

\* replies the device may give to a query
ReplyTexts == {Txt0, Txt1, Txt12, TxtNO, TxtFalse, TxtX}

Containers == {"str", "bool", "int"}

CLS == "*CLS"
OPC == "*OPC"
ESR == "*ESR?"
AsyncCmd == "SENSE1:SWEEP:MODE SINGLE"
WriteCmds == {AsyncCmd, "FORM:DATA ASCii,0"}
QueryCmds == {"*IDN?"}

-----------------------------------------------------------------------------
(* Values a call may return, and the exceptions it may raise *)

NoneValue == [tag |-> "None", s |-> TxtEmpty, n |-> 0, b |-> FALSE]

StrValue(t) == [tag |-> "str", s |-> t, n |-> 0, b |-> FALSE]

IntValue(k) == [tag |-> "int", s |-> TxtEmpty, n |-> k, b |-> FALSE]

BoolValue(x) == [tag |-> "bool", s |-> TxtEmpty, n |-> 0, b |-> x]

NoError == [type |-> "None", msg |-> "", code |-> 0, at |-> 0]

\* raise Exception("VisaResource not open") / Exception("GPIBLinkResource not open")
NotOpenError(c) == [type |-> "Exception", msg |-> c \o " not open", code |-> 0, at |-> 0]

\* VisaResource.query spells the message differently
QueryNotOpenError(c) ==
    [type |-> "Exception",
     msg |-> IF c = "VisaResource" THEN "Visa resource not open" ELSE c \o " not open",
     code |-> 0, at |-> 0]

QueryFailedError == [type |-> "Exception", msg |-> "Failed to perform query", code |-> 0, at |-> 0]

WriteAsyncFailedError ==
    [type |-> "Exception", msg |-> "Failed to perform write_async", code |-> 0, at |-> 0]

DeviceError(esr) ==
    [type |-> "Exception", msg |-> "Resource reported error code", code |-> esr, at |-> 0]

CompletionTimeoutError ==
    [type |-> "Exception", msg |-> "Completion timeout occurred in write_async",
     code |-> 0, at |-> 0]

\* the exception object the transport raises on a failed write / query / read /
\* open; k, the position of the failed operation in the call's log, tells one
\* exception object from another
TransportError(k) == [type |-> "VisaIOError", msg |-> "", code |-> 0, at |-> k]

\* int(text) / container(text) on a malformed reply, the k-th entry of the log
DecodeError(k) == [type |-> "ValueError", msg |-> "invalid literal", code |-> 0, at |-> k]

IsNotOpenError(e) ==
    e.type = "Exception" /\ e.msg \in {"VisaResource not open", "Visa resource not open",
                                       "GPIBLinkResource not open"}

-----------------------------------------------------------------------------
(* Conversions *)

Digits == {"0", "1", "2", "3", "4", "5", "6", "7", "8", "9"}

DigitValue(c) ==
    CASE c = "0" -> 0 [] c = "1" -> 1 [] c = "2" -> 2 [] c = "3" -> 3 [] c = "4" -> 4
      [] c = "5" -> 5 [] c = "6" -> 6 [] c = "7" -> 7 [] c = "8" -> 8 [] c = "9" -> 9

RECURSIVE DecimalValue(_)
DecimalValue(t) ==
    IF t = <<>> THEN 0
    ELSE 10 * DecimalValue(SubSeq(t, 1, Len(t) - 1)) + DigitValue(t[Len(t)])

\* str.strip(): the text without its leading and trailing blanks
RECURSIVE Strip(_)
Strip(t) ==
    IF t = <<>> THEN t
    ELSE IF Head(t) = " " THEN Strip(Tail(t))
    ELSE IF t[Len(t)] = " " THEN Strip(SubSeq(t, 1, Len(t) - 1))
    ELSE t

\* int(text): blanks around it dropped, an optional sign, then a non-empty
\* run of decimal digits; ValueError otherwise
ParseInt(t) ==
    LET u == Strip(t)
        signed == u # <<>> /\ u[1] \in {"+", "-"}
        body == IF signed THEN Tail(u) ELSE u
    IN  IF body # <<>> /\ \A i \in 1..Len(body) : body[i] \in Digits
        THEN [ok |-> TRUE,
              n |-> IF signed /\ u[1] = "-" THEN 0 - DecimalValue(body)
                    ELSE DecimalValue(body)]
        ELSE [ok |-> FALSE, n |-> 0]

LowerChar(c) ==
    CASE c = "N" -> "n" [] c = "O" -> "o" [] c = "F" -> "f" [] c = "A" -> "a"
      [] c = "L" -> "l" [] c = "S" -> "s" [] c = "E" -> "e" [] OTHER -> c

\* str.lower()
Lower(t) == [i \in 1..Len(t) |-> LowerChar(t[i])]

FalseTexts == {<<"0">>, <<"f", "a", "l", "s", "e">>, <<"n", "o">>}

\* rst.lower() not in ['0', 'false', 'no']
ParseBool(t) == Lower(t) \notin FalseTexts

\* mutant: a text that is no int literal is converted to 0
Decode_Default(container, t) ==
    CASE container = "bool" -> [ok |-> TRUE, value |-> BoolValue(ParseBool(t))]
      [] container = "int" -> [ok |-> TRUE, value |-> IntValue(ParseInt(t).n)]
      [] OTHER -> [ok |-> TRUE, value |-> StrValue(t)]

\* the conversion of a reply text to the requested container
Decode(container, t) ==
    CASE container = "bool" -> [ok |-> TRUE, value |-> BoolValue(ParseBool(t))]
      [] container = "int" ->
            IF ParseInt(t).ok
            THEN [ok |-> TRUE, value |-> IntValue(ParseInt(t).n)]
            ELSE [ok |-> FALSE, value |-> NoneValue]
      [] OTHER -> [ok |-> TRUE, value |-> StrValue(t)]

\* the one-character strings of a string, in order
Chars(s) == [i \in 1..Len(s) |-> SubSeq(s, i, i)]

\* str(n) of a non-negative integer
RECURSIVE NatToText(_)
NatToText(n) ==
    IF n < 10 THEN <<CHOOSE c \in Digits : DigitValue(c) = n>>
    ELSE Append(NatToText(n \div 10), CHOOSE c \in Digits : DigitValue(c) = n % 10)

\* str(n)
IntToText(n) == IF n < 0 THEN <<"-">> \o NatToText(0 - n) ELSE NatToText(n)

\* f'{n:02d}' of a non-negative integer
Format02d(n) == IF n < 10 THEN <<"0">> \o NatToText(n) ELSE NatToText(n)

\* f'{n:03d}': str(n) padded with zeros after the sign to three characters
Format03d(n) ==
    LET body == NatToText(IF n < 0 THEN 0 - n ELSE n)
        sign == IF n < 0 THEN <<"-">> ELSE <<>>
        pad == [i \in 1..(3 - Len(sign) - Len(body)) |-> "0"]
    IN  sign \o pad \o body

\* re.sub(r"[@\(\)]", "", text)
RouteChars(t) == SelectSeq(t, LAMBDA c : c \notin {"@", "(", ")"})

\* text.split(","): the pieces between the commas, at least one piece
RECURSIVE Split(_)
Split(t) ==
    IF \A i \in 1..Len(t) : t[i] # "," THEN <<t>>
    ELSE LET k == CHOOSE i \in 1..Len(t) : t[i] = "," /\ \A j \in 1..(i - 1) : t[j] # ","
         IN  <<SubSeq(t, 1, k - 1)>> \o Split(SubSeq(t, k + 1, Len(t)))

\* t.split(sep) for a one-character separator
RECURSIVE SplitOn(_, _)
SplitOn(t, sep) ==
    IF \A i \in 1..Len(t) : t[i] # sep THEN <<t>>
    ELSE LET k == CHOOSE i \in 1..Len(t) : t[i] = sep /\ \A j \in 1..(i - 1) : t[j] # sep
         IN  <<SubSeq(t, 1, k - 1)>> \o SplitOn(SubSeq(t, k + 1, Len(t)), sep)

\* t.rstrip('?')
RECURSIVE RStripQuery(_)
RStripQuery(t) ==
    IF t # <<>> /\ t[Len(t)] = "?" THEN RStripQuery(SubSeq(t, 1, Len(t) - 1)) ELSE t

\* the string of a sequence of characters
RECURSIVE Str(_)
Str(t) == IF t = <<>> THEN "" ELSE t[1] \o Str(Tail(t))

\* ','.join(pieces)
RECURSIVE Join(_)
Join(pieces) ==
    IF pieces = <<>> THEN <<>>
    ELSE IF Len(pieces) = 1 THEN pieces[1]
    ELSE pieces[1] \o <<",">> \o Join(Tail(pieces))

RECURSIVE BitAnd(_, _)
BitAnd(a, b) ==
    IF a = 0 \/ b = 0 THEN 0
    ELSE (a % 2) * (b % 2) + 2 * BitAnd(a \div 2, b \div 2)

ErrorMask == 60       \* 0x3C
CompleteMask == 1     \* 0x01

\* mutant: the completion bit is looked at first, the error bits only without it
HasErrorBits_AfterComplete(esr) ==
    BitAnd(esr, ErrorMask) # 0 /\ BitAnd(esr, CompleteMask) = 0

\* mutant: the error mask misses bit 2
HasErrorBits_Mask38(esr) == BitAnd(esr, 56) # 0

\* esr & 0x3C
HasErrorBits(esr) == BitAnd(esr, ErrorMask) # 0

\* mutant: completion is tested by equality instead of by bit
IsComplete_Equal(esr) == esr = 1

\* complete = esr & 0x01
IsComplete(esr) == BitAnd(esr, CompleteMask) # 0

-----------------------------------------------------------------------------
(* The log of a call *)

SleepEntry == [op |-> "sleep", cmd |-> "", ok |-> TRUE]

WriteEntry(c, ok) == [op |-> "write", cmd |-> c, ok |-> ok]

QueryEntry(c, ok) == [op |-> "query", cmd |-> c, ok |-> ok]

ReadEntry(ok) == [op |-> "read", cmd |-> "", ok |-> ok]

OpenEntry(ok) == [op |-> "open", cmd |-> "", ok |-> ok]

CloseEntry == [op |-> "close", cmd |-> "", ok |-> TRUE]

\* what the environment answers to one transport operation
GoodReply(t) == [ok |-> TRUE, text |-> t]

FaultReply == [ok |-> FALSE, text |-> TxtEmpty]

Faults == {FaultReply}

Returned(v) == [status |-> "returned", value |-> v, err |-> NoError]

Raised(e) == [status |-> "raised", value |-> NoneValue, err |-> e]

Pending == [status |-> "none", value |-> NoneValue, err |-> NoError]

NoCall ==
    [name |-> "none", cmd |-> "", container |-> "str", max_attempts |-> 0,
     delay |-> 0, timeout |-> None]

Call(name, cmd, container, n, d, t) ==
    [name |-> name, cmd |-> cmd, container |-> container, max_attempts |-> n,
     delay |-> d, timeout |-> t]

-----------------------------------------------------------------------------
(* Initial state: a freshly constructed resource object *)

NoArgs == [delay |-> 0, max_attempts |-> 0, timeout |-> None]

\* no completion wait is running
WaitIdle ==
    /\ waiter = "none"
    /\ wpc = "idle"
    /\ wargs = NoArgs
    /\ tries = 0
    /\ wait_time = 0
    /\ complete = 0
    /\ done_str = GoodReply(TxtEmpty)
    /\ wresult = Pending

\* no query is followed request by request, and the transport is quiet
LinkIdle ==
    /\ requests = <<>>
    /\ inbuf = <<>>
    /\ qpc = "idle"
    /\ qcall = [id |-> 0, max_attempts |-> 0]
    /\ qtries = 0
    /\ qresult = [status |-> "none", reply |-> [call |-> 0, attempt |-> 0]]

\* nodes of a simulator state tree: a mapping, a route list, a scalar leaf
\* and a handler function
Dict(children) ==
    [kind |-> "dict", children |-> children, items |-> <<>>, text |-> "", fn |-> ""]

List(items) ==
    [kind |-> "list", children |-> <<>>, items |-> items, text |-> "", fn |-> ""]

Leaf(text) ==
    [kind |-> "str", children |-> <<>>, items |-> <<>>, text |-> text, fn |-> ""]

Callable(fn) ==
    [kind |-> "callable", children |-> <<>>, items |-> <<>>, text |-> "", fn |-> fn]

Command(cmd_tree, params, is_query) ==
    [cmd_tree |-> cmd_tree, params |-> params, is_query |-> is_query]

NoCommand == Command(<<>>, <<>>, FALSE)

\* process_command returned None
NoneReply == [kind |-> "none", text |-> <<>>, err |-> ""]

\* process_command returned the text t
TextReply(t) == [kind |-> "text", text |-> t, err |-> ""]

\* process_command raised
RaisedReply(e) == [kind |-> "raised", text |-> <<>>, err |-> e]

FacadeCall(name, channel) == [name |-> name, channel |-> channel]

NoFacadeCall == FacadeCall("none", 0)

\* no command is being served by the simulator
DaqIdle ==
    /\ dpc = "idle"
    /\ dcmd = NoCommand
    /\ dreply = NoneReply
    /\ fcall = NoFacadeCall
    /\ fresult = Pending
    /\ wire = <<>>

\* no simulator is running
DaqOff ==
    /\ sim = "none"
    /\ num_slots = 0
    /\ num_channels = 0
    /\ state = Dict(<<>>)
    /\ recent = <<>>
    /\ DaqIdle

\* no connection to a simulator has been accepted
NetIdle ==
    /\ connected = FALSE
    /\ received = <<>>
    /\ prior_data = <<>>
    /\ handed = <<>>
    /\ dispatched = <<>>
    /\ outbound = <<>>

\* no generator has been created
GenIdle ==
    /\ gpc = "none"
    /\ locals = [save |-> FALSE, num_steps |-> 0, i |-> 0]
    /\ yielded = <<>>
    /\ traffic = <<>>

\* the calls of the client followed operation by operation leave the
\* state of the other components alone
ClientOnly == UNCHANGED <<waitVars, linkVars, daqVars, netVars, genVars>>

\* a completion wait followed by its loop state leaves the rest alone
WaitOnly == UNCHANGED <<clientVars, linkVars, daqVars, netVars, genVars>>

\* the query loop followed request by request leaves the rest alone
LinkOnly == UNCHANGED <<clientVars, waitVars, daqVars, netVars, genVars>>

\* the simulator and the facade in front of it, followed command by command
DaqOnly == UNCHANGED <<clientVars, waitVars, linkVars, netVars, genVars>>

\* the run loop of a simulator followed packet by packet
NetOnly == UNCHANGED <<clientVars, waitVars, linkVars, genVars>>

\* the generator followed from one yield to the next
GenOnly == UNCHANGED <<clientVars, waitVars, linkVars, daqVars, netVars>>

Init ==
    /\ cls \in {"VisaResource", "GPIBLinkResource"}
    /\ is_open = FALSE
    /\ resource = 0
    /\ leaked = 0
    /\ pc = "idle"
    /\ call = NoCall
    /\ attempts = 0
    /\ err = NoError
    /\ elapsed = 0
    /\ log = <<>>
    /\ replies = <<>>
    /\ outcome = Pending
    /\ WaitIdle
    /\ LinkIdle
    /\ NetIdle
    /\ GenIdle
    /\ DaqOff

\* a call that runs in one step leaves the loop locals at their rest values
NoLoop == attempts' = 0 /\ err' = NoError /\ elapsed' = 0 /\ pc' = "done"

WriteReplies == {GoodReply(TxtEmpty)} \cup Faults

-----------------------------------------------------------------------------
(* open / close *)

\* open(): open_resource either raises or hands out a fresh transport, which
\* replaces whatever self.resource held (a transport still open is dropped
\* without being closed); then is_open = True
open ==
    /\ pc = "idle"
    /\ resource # 0 => leaked < MaxLeaks
    /\ call' = Call("open", "", "str", 0, 0, None)
    /\ \E r \in WriteReplies :
        /\ log' = <<OpenEntry(r.ok)>>
        /\ IF r.ok
           THEN /\ leaked' = IF resource # 0 THEN leaked + 1 ELSE leaked
                /\ resource' = 1
                /\ is_open' = TRUE
                /\ outcome' = Returned(NoneValue)
           ELSE /\ UNCHANGED <<leaked, resource, is_open>>
                /\ outcome' = Raised(TransportError(Len(log')))
    /\ replies' = <<>>
    /\ NoLoop
    /\ cls' = cls

\* mutant: close() releases the transport and leaves is_open as it is
close_KeepsOpenFlag ==
    /\ pc = "idle"
    /\ call' = Call("close", "", "str", 0, 0, None)
    /\ IF resource # 0
       THEN \E r \in WriteReplies :
               IF r.ok
               THEN /\ log' = <<WriteEntry(CLS, TRUE), SleepEntry, CloseEntry>>
                    /\ resource' = 0
                    /\ is_open' = is_open
                    /\ outcome' = Returned(NoneValue)
               ELSE /\ log' = <<WriteEntry(CLS, FALSE)>>
                    /\ UNCHANGED <<resource, is_open>>
                    /\ outcome' = Raised(TransportError(Len(log')))
       ELSE /\ log' = <<>>
            /\ resource' = 0
            /\ is_open' = is_open
            /\ outcome' = Returned(NoneValue)
    /\ replies' = <<>>
    /\ NoLoop
    /\ UNCHANGED <<cls, leaked>>

\* close(): if self.resource: write *CLS, sleep, resource.close(); then
\* resource = None and is_open = False.  A failing *CLS write raises out of close
close ==
    /\ pc = "idle"
    /\ call' = Call("close", "", "str", 0, 0, None)
    /\ IF resource # 0
       THEN \E r \in WriteReplies :
               IF r.ok
               THEN /\ log' = <<WriteEntry(CLS, TRUE), SleepEntry, CloseEntry>>
                    /\ resource' = 0
                    /\ is_open' = FALSE
                    /\ outcome' = Returned(NoneValue)
               ELSE /\ log' = <<WriteEntry(CLS, FALSE)>>
                    /\ UNCHANGED <<resource, is_open>>
                    /\ outcome' = Raised(TransportError(Len(log')))
       ELSE /\ log' = <<>>
            /\ resource' = 0
            /\ is_open' = FALSE
            /\ outcome' = Returned(NoneValue)
    /\ replies' = <<>>
    /\ NoLoop
    /\ UNCHANGED <<cls, leaked>>

-----------------------------------------------------------------------------
(* write / read *)

\* mutant: a failed send is repeated once
WriteOps_Resend(cmd, r) ==
    IF r.ok THEN <<SleepEntry, WriteEntry(cmd, TRUE)>>
    ELSE <<SleepEntry, WriteEntry(cmd, FALSE), SleepEntry, WriteEntry(cmd, TRUE)>>

\* the body of write(cmd) on an open resource: time.sleep(self.delay), then
\* self.resource.write(cmd), whose exception (if any) leaves write as it is
WriteOps(cmd, r) == <<SleepEntry, WriteEntry(cmd, r.ok)>>

\* mutant: write does not look at is_open
write_Unguarded ==
    /\ pc = "idle"
    /\ \E cmd \in WriteCmds, r \in WriteReplies :
        /\ call' = Call("write", cmd, "str", 0, 0, None)
        /\ log' = WriteOps(cmd, r)
        /\ outcome' = IF r.ok THEN Returned(NoneValue)
                              ELSE Raised(TransportError(Len(log')))
    /\ replies' = <<>>
    /\ NoLoop
    /\ UNCHANGED resourceVars

write ==
    /\ pc = "idle"
    /\ \E cmd \in WriteCmds :
        /\ call' = Call("write", cmd, "str", 0, 0, None)
        /\ IF ~is_open
           THEN /\ log' = <<>>
                /\ outcome' = Raised(NotOpenError(cls))
           ELSE \E r \in WriteReplies :
                /\ log' = WriteOps(cmd, r)
                /\ outcome' = IF r.ok THEN Returned(NoneValue)
                                      ELSE Raised(TransportError(Len(log')))
    /\ replies' = <<>>
    /\ NoLoop
    /\ UNCHANGED resourceVars

\* what read() hands back: VisaResource.read has no return statement,
\* GPIBLinkResource.read returns the text
ReadResult(c, t) == IF c = "GPIBLinkResource" THEN StrValue(t) ELSE NoneValue

read ==
    /\ pc = "idle"
    /\ call' = Call("read", "", "str", 0, 0, None)
    /\ IF ~is_open
       THEN /\ log' = <<>>
            /\ replies' = <<>>
            /\ outcome' = Raised(NotOpenError(cls))
       ELSE \E r \in {GoodReply(t) : t \in ReplyTexts} \cup Faults :
            /\ log' = <<ReadEntry(r.ok)>>
            /\ replies' = <<r>>
            /\ outcome' = IF r.ok THEN Returned(ReadResult(cls, r.text))
                                  ELSE Raised(TransportError(Len(log')))
    /\ NoLoop
    /\ UNCHANGED resourceVars

-----------------------------------------------------------------------------
(* query: for attempts in range(max_attempts): try ... except ...; raise err *)

QueryReplies == {GoodReply(t) : t \in ReplyTexts} \cup Faults

\* mutant: the loop makes one pass too many
LoopGoesOn_OneMore(n, max) == n < max

\* for attempts in range(max_attempts): is there another pass after pass n (from 0)
LoopGoesOn(n, max) == n + 1 < max

\* mutant: the exception caught is dropped and the generic error is raised
query_except_Generic(e) ==
    /\ err' = err
    /\ attempts' = attempts + 1
    /\ IF LoopGoesOn(attempts, call.max_attempts)
       THEN pc' = "query" /\ outcome' = outcome
       ELSE pc' = "done" /\ outcome' = Raised(err)

\* except Exception as curErr: err = curErr; then the next pass, or `raise err`
query_except(e) ==
    /\ err' = e
    /\ attempts' = attempts + 1
    /\ IF LoopGoesOn(attempts, call.max_attempts)
       THEN pc' = "query" /\ outcome' = outcome
       ELSE pc' = "done" /\ outcome' = Raised(e)

\* mutant: the value is handed back but the loop is not left
query_return_NoExit(v) ==
    /\ pc' = IF LoopGoesOn(attempts, call.max_attempts) THEN "query" ELSE "done"
    /\ outcome' = Returned(v)
    /\ attempts' = attempts + 1
    /\ err' = err

\* `return rst` inside the loop
query_return(v) ==
    /\ pc' = "done"
    /\ outcome' = Returned(v)
    /\ UNCHANGED <<err, attempts>>

\* entry of query up to the first pass of the loop
QueryStart(cmd, container, n) ==
    /\ pc = "idle"
    /\ call' = Call("query", cmd, container, n, 0, None)
    /\ log' = <<>>
    /\ replies' = <<>>
    /\ elapsed' = 0
    /\ attempts' = 0
    /\ IF ~is_open
       THEN /\ err' = NoError
            /\ pc' = "done"
            /\ outcome' = Raised(QueryNotOpenError(cls))
       ELSE /\ err' = QueryFailedError
            /\ IF n > 0
               THEN pc' = "query" /\ outcome' = Pending
               ELSE pc' = "done" /\ outcome' = Raised(QueryFailedError)
    /\ UNCHANGED resourceVars

\* VisaResource.query(cmd, container, max_attempts)
query ==
    /\ cls = "VisaResource"
    /\ \E cmd \in QueryCmds, container \in Containers, n \in 0..MaxQueryAttempts :
        QueryStart(cmd, container, n)

\* GPIBLinkResource.query(cmd, maxAttempts): the reply is returned as it is
GPIBLink_query ==
    /\ cls = "GPIBLinkResource"
    /\ \E cmd \in QueryCmds, n \in 0..MaxQueryAttempts :
        QueryStart(cmd, "str", n)

\* one pass of the loop: self.resource.query(cmd), then the conversion
query_attempt ==
    /\ pc = "query"
    /\ \E r \in QueryReplies :
        /\ log' = Append(log, QueryEntry(call.cmd, r.ok))
        /\ replies' = Append(replies, r)
        /\ IF ~r.ok
           THEN query_except(TransportError(Len(log')))
           ELSE IF Decode(call.container, r.text).ok
                THEN query_return(Decode(call.container, r.text).value)
                ELSE query_except(DecodeError(Len(log')))
    /\ UNCHANGED <<resourceVars, call, elapsed>>

-----------------------------------------------------------------------------
(* write_async *)

Timeouts == {None} \cup (1..MaxTimeout)

EsrReplies == {GoodReply(t) : t \in EsrTexts} \cup Faults

\* mutant: the next pass starts at cmd, without *CLS
write_async_except_SkipCls(e) ==
    /\ err' = e
    /\ attempts' = attempts + 1
    /\ IF LoopGoesOn(attempts, call.max_attempts)
       THEN pc' = "cmd" /\ outcome' = outcome
       ELSE pc' = "done" /\ outcome' = Raised(e)

\* except Exception as cur_err: err = cur_err; then the next pass, or `raise err`
write_async_except(e) ==
    /\ err' = e
    /\ attempts' = attempts + 1
    /\ IF LoopGoesOn(attempts, call.max_attempts)
       THEN pc' = "cls" /\ outcome' = outcome
       ELSE pc' = "done" /\ outcome' = Raised(e)

\* mutant: the timeout fires one tick early
TimedOut_Early(timeout, t) == timeout # None /\ t >= timeout

\* if timeout is not None and elapsed > timeout
TimedOut(timeout, t) == timeout # None /\ t > timeout

\* the command the pass writes at position p, and the position after it
StepCmd(p) == CASE p = "cls" -> CLS [] p = "cmd" -> call.cmd [] p = "opc" -> OPC

\* mutant: the pass starts polling without writing *OPC
StepNext_NoOpc(p) == CASE p = "cls" -> "cmd" [] p = "cmd" -> "poll" [] p = "opc" -> "poll"

StepNext(p) == CASE p = "cls" -> "cmd" [] p = "cmd" -> "opc" [] p = "opc" -> "poll"

\* write_async(cmd, delay, max_attempts, timeout) up to the first pass of the loop
write_async ==
    /\ pc = "idle"
    /\ cls = "VisaResource"
    /\ \E n \in 0..MaxAttempts, d \in 1..MaxDelay, t \in Timeouts :
        /\ call' = Call("write_async", AsyncCmd, "str", n, d, t)
        /\ IF n > 0
           THEN pc' = "cls" /\ outcome' = Pending
           ELSE pc' = "done" /\ outcome' = Raised(WriteAsyncFailedError)
    /\ err' = WriteAsyncFailedError
    /\ attempts' = 0
    /\ elapsed' = 0
    /\ log' = <<>>
    /\ replies' = <<>>
    /\ UNCHANGED resourceVars

\* self.write('*CLS'), self.write(cmd), self.write('*OPC'); tic = time.time()
write_async_write ==
    /\ pc \in {"cls", "cmd", "opc"}
    /\ replies' = <<>>
    /\ elapsed' = 0
    /\ IF ~is_open
       THEN /\ log' = log
            /\ write_async_except(NotOpenError(cls))
       ELSE \E r \in WriteReplies :
            /\ log' = log \o WriteOps(StepCmd(pc), r)
            /\ IF r.ok
               THEN /\ pc' = StepNext(pc)
                    /\ UNCHANGED <<err, attempts, outcome>>
               ELSE write_async_except(TransportError(Len(log')))
    /\ UNCHANGED <<resourceVars, call>>

\* one pass of `while not complete`: poll *ESR?, check the error bits, check
\* the completion bit, sleep, check the timeout
\* (with timeout=None the code never reads elapsed, which then stays as it
\* is; the polls of such a pass are explored up to MaxPolls)
write_async_poll ==
    /\ pc = "poll"
    /\ Len(replies) < MaxPolls
    /\ \E r \in EsrReplies :
        /\ log' = Append(log, QueryEntry(ESR, r.ok))
        /\ replies' = Append(replies, r)
        /\ IF ~r.ok
           THEN write_async_except(TransportError(Len(log'))) /\ elapsed' = elapsed
           ELSE IF ~ParseInt(r.text).ok
           THEN write_async_except(DecodeError(Len(log'))) /\ elapsed' = elapsed
           ELSE IF HasErrorBits(ParseInt(r.text).n)
           THEN write_async_except(DeviceError(ParseInt(r.text).n)) /\ elapsed' = elapsed
           ELSE IF IsComplete(ParseInt(r.text).n)
           THEN /\ pc' = "done"
                /\ outcome' = Returned(NoneValue)
                /\ UNCHANGED <<err, attempts, elapsed>>
           ELSE \E j \in Jitter :
                /\ elapsed' = IF call.timeout = None THEN elapsed
                              ELSE elapsed + call.delay + j
                /\ IF TimedOut(call.timeout, elapsed')
                   THEN write_async_except(CompletionTimeoutError)
                   ELSE UNCHANGED <<pc, err, attempts, outcome>>
    /\ UNCHANGED <<resourceVars, call>>

-----------------------------------------------------------------------------

\* the call is over: the caller takes the result (or the exception) and is
\* free to make its next call
return ==
    /\ pc = "done"
    /\ pc' = "idle"
    /\ call' = NoCall
    /\ attempts' = 0
    /\ err' = NoError
    /\ elapsed' = 0
    /\ log' = <<>>
    /\ replies' = <<>>
    /\ outcome' = Pending
    /\ UNCHANGED resourceVars

Next ==
    \/ open /\ ClientOnly
    \/ close /\ ClientOnly
    \/ write /\ ClientOnly
    \/ read /\ ClientOnly
    \/ query /\ ClientOnly
    \/ GPIBLink_query /\ ClientOnly
    \/ query_attempt /\ ClientOnly
    \/ write_async /\ ClientOnly
    \/ write_async_write /\ ClientOnly
    \/ write_async_poll /\ ClientOnly
    \/ return /\ ClientOnly

Spec == Init /\ [][Next]_vars

-----------------------------------------------------------------------------
(* The completion waits of the client, followed by their loop state.       *)
(* write_async is followed here pass by pass without its log, next to      *)
(* sync_commands_nonblocking, AgilentVNA._writeAsyncSCPI and               *)
(* wait_for_completion.  The writes that precede the polling are one step. *)
(* wait_for_completion counts its wait in polls of 15 ms, and its timeout  *)
(* argument is counted in the same unit.                                   *)

TxtSp1 == <<" ", "1">>

\* replies to ROUT:DONE?
DoneTexts == {Txt0, Txt1, TxtSp1, TxtX, TxtEmpty}

DoneReplies == {GoodReply(t) : t \in DoneTexts} \cup Faults

\* raise Exception(f'Resource {self.bus_address} reported error code: {esr}')
SyncDeviceError(esr) ==
    [type |-> "Exception", msg |-> "Resource <bus_address> reported error code",
     code |-> esr, at |-> 0]

\* raise Exception('Timeout occurred waiting for route to finish.')
RouteTimeoutError ==
    [type |-> "Exception", msg |-> "Timeout occurred waiting for route to finish.",
     code |-> 0, at |-> 0]

WaitArgs(d, n, t) == [delay |-> d, max_attempts |-> n, timeout |-> t]

\* str.isnumeric(): not empty, digits only
isnumeric(t) == t # <<>> /\ \A i \in 1..Len(t) : t[i] \in Digits

\* the wait ends by raising e
WaitRaises(e) == wpc' = "done" /\ wresult' = Raised(e)

\* the wait ends by returning None
WaitReturns == wpc' = "done" /\ wresult' = Returned(NoneValue)

\* write_async: except Exception as cur_err: err = cur_err; the next pass, or `raise err`
write_async_loop_except(e) ==
    /\ tries' = tries + 1
    /\ IF LoopGoesOn(tries, wargs.max_attempts)
       THEN wpc' = "write" /\ wresult' = wresult
       ELSE WaitRaises(e)

\* write_async(cmd, delay, max_attempts, timeout) up to the first pass
write_async_loop ==
    /\ wpc = "idle"
    /\ cls = "VisaResource"
    /\ \E n \in 0..MaxAttempts, d \in 1..MaxDelay, t \in Timeouts :
        /\ wargs' = WaitArgs(d, n, t)
        /\ IF n > 0
           THEN wpc' = "write" /\ wresult' = Pending
           ELSE WaitRaises(WriteAsyncFailedError)
    /\ waiter' = "write_async"
    /\ UNCHANGED <<tries, wait_time, complete, done_str>>

\* self.write('*CLS'); self.write(cmd); self.write('*OPC'); tic = time.time();
\* complete = False
write_async_loop_write ==
    /\ waiter = "write_async"
    /\ wpc = "write"
    /\ wait_time' = 0
    /\ complete' = 0
    /\ \E r \in WriteReplies :
        IF r.ok
        THEN wpc' = "poll" /\ UNCHANGED <<tries, wresult>>
        ELSE write_async_loop_except(TransportError(0))
    /\ UNCHANGED <<waiter, wargs, done_str>>

\* one pass of `while not complete` of write_async
write_async_loop_poll ==
    /\ waiter = "write_async"
    /\ wpc = "poll"
    /\ \E r \in EsrReplies :
        /\ done_str' = r
        /\ IF ~r.ok
           THEN write_async_loop_except(TransportError(0))
                /\ UNCHANGED <<wait_time, complete>>
           ELSE IF ~ParseInt(r.text).ok
           THEN write_async_loop_except(DecodeError(0))
                /\ UNCHANGED <<wait_time, complete>>
           ELSE IF HasErrorBits(ParseInt(r.text).n)
           THEN write_async_loop_except(DeviceError(ParseInt(r.text).n))
                /\ UNCHANGED <<wait_time, complete>>
           ELSE IF IsComplete(ParseInt(r.text).n)
           THEN /\ complete' = BitAnd(ParseInt(r.text).n, CompleteMask)
                /\ WaitReturns
                /\ UNCHANGED <<tries, wait_time>>
           ELSE \E j \in Jitter :
                /\ complete' = 0
                /\ wait_time' = IF wargs.timeout = None THEN wait_time
                                ELSE wait_time + wargs.delay + j
                /\ IF TimedOut(wargs.timeout, wait_time')
                   THEN write_async_loop_except(CompletionTimeoutError)
                   ELSE UNCHANGED <<wpc, tries, wresult>>
    /\ UNCHANGED <<waiter, wargs>>

\* sync_commands_nonblocking(delay): self.write('*OPC'); complete = False
sync_commands_nonblocking ==
    /\ wpc = "idle"
    /\ cls = "VisaResource"
    /\ waiter' = "sync_commands_nonblocking"
    /\ \E d \in 1..MaxDelay : wargs' = WaitArgs(d, 1, None)
    /\ \E r \in WriteReplies :
        IF r.ok
        THEN wpc' = "poll" /\ wresult' = Pending
        ELSE WaitRaises(TransportError(0))
    /\ UNCHANGED <<tries, wait_time, complete, done_str>>

\* one pass of `while not complete` of sync_commands_nonblocking:
\* esr = int(self.query('*ESR?', max_attempts=1)); the error bits; complete;
\* time.sleep(delay)
sync_commands_nonblocking_poll ==
    /\ waiter = "sync_commands_nonblocking"
    /\ wpc = "poll"
    /\ \E r \in EsrReplies :
        /\ done_str' = r
        /\ IF ~r.ok
           THEN WaitRaises(TransportError(0)) /\ complete' = complete
           ELSE IF ~ParseInt(r.text).ok
           THEN WaitRaises(DecodeError(0)) /\ complete' = complete
           ELSE IF HasErrorBits(ParseInt(r.text).n)
           THEN WaitRaises(SyncDeviceError(ParseInt(r.text).n)) /\ complete' = complete
           ELSE /\ complete' = BitAnd(ParseInt(r.text).n, CompleteMask)
                /\ IF complete' # 0 THEN WaitReturns ELSE UNCHANGED <<wpc, wresult>>
    /\ UNCHANGED <<waiter, wargs, tries, wait_time>>

\* AgilentVNA._writeAsyncSCPI(scpiStr, delay): the three _writeSCPI calls;
\* isComplete = False
writeAsyncSCPI ==
    /\ wpc = "idle"
    /\ cls = "GPIBLinkResource"
    /\ waiter' = "_writeAsyncSCPI"
    /\ \E d \in 1..MaxDelay : wargs' = WaitArgs(d, 1, None)
    /\ \E r \in WriteReplies :
        IF r.ok
        THEN wpc' = "poll" /\ wresult' = Pending
        ELSE WaitRaises(TransportError(0))
    /\ UNCHANGED <<tries, wait_time, complete, done_str>>

\* one pass of `while not isComplete`: msg = self._querySCPI("*ESR?");
\* isComplete = int(msg) & 0x01; if not isComplete: time.sleep(delay)
writeAsyncSCPI_poll ==
    /\ waiter = "_writeAsyncSCPI"
    /\ wpc = "poll"
    /\ \E r \in EsrReplies :
        /\ done_str' = r
        /\ IF ~r.ok
           THEN WaitRaises(TransportError(0)) /\ complete' = complete
           ELSE IF ~ParseInt(r.text).ok
           THEN WaitRaises(DecodeError(0)) /\ complete' = complete
           ELSE /\ complete' = BitAnd(ParseInt(r.text).n, CompleteMask)
                /\ IF complete' # 0 THEN WaitReturns ELSE UNCHANGED <<wpc, wresult>>
    /\ UNCHANGED <<waiter, wargs, tries, wait_time>>

\* mutant: the timeout of wait_for_completion fires a poll too late
WaitExpired_Late(t, timeout, exact) == t > timeout + 1

\* if wait_time >= timeout, where wait_time is a float sum of t increments of
\* 15E-3 and timeout is counted in the same increments: the sum of as many
\* increments as the timeout counts is the timeout itself (exact) or falls
\* short of it by the rounding of the additions
WaitExpired(t, timeout, exact) == IF exact THEN t >= timeout ELSE t > timeout

\* wait_for_completion(timeout): done = False; wait_time = 0.0
wait_for_completion ==
    /\ wpc = "idle"
    /\ waiter' = "wait_for_completion"
    /\ \E t \in 0..MaxTimeout : wargs' = WaitArgs(1, 1, t)
    /\ wpc' = "poll"
    /\ wait_time' = 0
    /\ complete' = 0
    /\ wresult' = Pending
    /\ UNCHANGED <<tries, done_str>>

\* one pass of `while not done`: sleep, done_str = self.resource.query('ROUT:DONE?');
\* done = int(done_str.strip()) if the reply is numeric; wait_time += 15E-3;
\* raise if wait_time >= timeout
wait_for_completion_poll ==
    /\ waiter = "wait_for_completion"
    /\ wpc = "poll"
    /\ \E r \in DoneReplies :
        /\ done_str' = r
        /\ IF ~r.ok
           THEN WaitRaises(TransportError(0)) /\ UNCHANGED <<wait_time, complete>>
           ELSE /\ complete' = IF isnumeric(Strip(r.text))
                               THEN ParseInt(Strip(r.text)).n ELSE complete
                /\ wait_time' = wait_time + 1
                /\ \E exact \in BOOLEAN :
                    IF WaitExpired(wait_time', wargs.timeout, exact)
                    THEN WaitRaises(RouteTimeoutError)
                    ELSE IF complete' # 0 THEN WaitReturns
                    ELSE UNCHANGED <<wpc, wresult>>
    /\ UNCHANGED <<waiter, wargs, tries>>

\* the wait is over: the caller takes the result (or the exception)
wait_return ==
    /\ wpc = "done"
    /\ waiter' = "none"
    /\ wpc' = "idle"
    /\ wargs' = NoArgs
    /\ tries' = 0
    /\ wait_time' = 0
    /\ complete' = 0
    /\ done_str' = GoodReply(TxtEmpty)
    /\ wresult' = Pending

WaitNext ==
    \/ write_async_loop /\ WaitOnly
    \/ write_async_loop_write /\ WaitOnly
    \/ write_async_loop_poll /\ WaitOnly
    \/ sync_commands_nonblocking /\ WaitOnly
    \/ sync_commands_nonblocking_poll /\ WaitOnly
    \/ writeAsyncSCPI /\ WaitOnly
    \/ writeAsyncSCPI_poll /\ WaitOnly
    \/ wait_for_completion /\ WaitOnly
    \/ wait_for_completion_poll /\ WaitOnly
    \/ wait_return /\ WaitOnly

\* a resource that open() has opened, no call in progress
ClientOpened ==
    /\ cls \in {"VisaResource", "GPIBLinkResource"}
    /\ is_open = TRUE
    /\ resource = 1
    /\ leaked = 0
    /\ pc = "idle"
    /\ call = NoCall
    /\ attempts = 0
    /\ err = NoError
    /\ elapsed = 0
    /\ log = <<>>
    /\ replies = <<>>
    /\ outcome = Pending

WaitInit == ClientOpened /\ WaitIdle /\ LinkIdle /\ DaqOff /\ NetIdle /\ GenIdle

WaitSpec == WaitInit /\ [][WaitNext]_vars

\* the calling thread keeps running: a wait that can take a step takes it
WaitFair == WaitSpec /\ WF_vars(WaitNext)

-----------------------------------------------------------------------------
(* The retry loop of query over a transport that delays and loses replies. *)
(* self.resource.query(cmd) writes the request and reads the next reply of *)
(* the transport; the read raises (timeout) when no reply is there.  The   *)
(* instrument answers its requests in order, at its own pace.              *)

Request(c, a) == [call |-> c, attempt |-> a]

LinkPending == [status |-> "none", reply |-> Request(0, 0)]

\* return rst: the reply read, which answers request r
LinkReturned(r) == [status |-> "returned", reply |-> r]

\* raise err
LinkRaised == [status |-> "raised", reply |-> Request(0, 0)]

\* query(cmd, max_attempts=n) up to the first pass of the loop
link_query ==
    /\ qpc = "idle"
    /\ qcall.id < MaxCalls
    /\ \E n \in 0..MaxQueryAttempts :
        /\ qcall' = [id |-> qcall.id + 1, max_attempts |-> n]
        /\ IF n > 0
           THEN qpc' = "send" /\ qresult' = LinkPending
           ELSE qpc' = "done" /\ qresult' = LinkRaised
    /\ qtries' = 0
    /\ UNCHANGED <<requests, inbuf>>

\* self.resource.query(cmd, delay=self.delay), first half: the request is written
link_send ==
    /\ qpc = "send"
    /\ requests' = Append(requests, Request(qcall.id, qtries + 1))
    /\ qpc' = "read"
    /\ UNCHANGED <<inbuf, qcall, qtries, qresult>>

\* self.resource.query(cmd, delay=self.delay), second half: the read returns the
\* oldest unread reply, or raises when there is none; then `return rst`, or
\* the except clause and the next pass, or `raise err`
link_read ==
    /\ qpc = "read"
    /\ IF inbuf # <<>>
       THEN /\ inbuf' = Tail(inbuf)
            /\ qresult' = LinkReturned(Head(inbuf))
            /\ qpc' = "done"
            /\ qtries' = qtries
       ELSE /\ inbuf' = inbuf
            /\ qtries' = qtries + 1
            /\ IF LoopGoesOn(qtries, qcall.max_attempts)
               THEN qpc' = "send" /\ qresult' = qresult
               ELSE qpc' = "done" /\ qresult' = LinkRaised
    /\ UNCHANGED <<requests, qcall>>

\* the instrument answers its oldest request and the reply reaches the client
device_reply ==
    /\ requests # <<>>
    /\ inbuf' = Append(inbuf, Head(requests))
    /\ requests' = Tail(requests)
    /\ UNCHANGED <<qpc, qcall, qtries, qresult>>

\* the request or its reply is lost
device_lose ==
    /\ requests # <<>>
    /\ requests' = Tail(requests)
    /\ UNCHANGED <<inbuf, qpc, qcall, qtries, qresult>>

\* the query is over: the caller takes the result (or the exception)
link_return ==
    /\ qpc = "done"
    /\ qpc' = "idle"
    /\ qtries' = 0
    /\ qresult' = LinkPending
    /\ UNCHANGED <<requests, inbuf, qcall>>

LinkNext ==
    \/ link_query /\ LinkOnly
    \/ link_send /\ LinkOnly
    \/ link_read /\ LinkOnly
    \/ device_reply /\ LinkOnly
    \/ device_lose /\ LinkOnly
    \/ link_return /\ LinkOnly

LinkInit == ClientOpened /\ WaitIdle /\ LinkIdle /\ DaqOff /\ NetIdle /\ GenIdle

LinkSpec == LinkInit /\ [][LinkNext]_vars

-----------------------------------------------------------------------------
(* The simulated DAQ of the test suite (testsuite/DummyDAQ.py): its state   *)
(* tree and its dispatcher process_command(cmd_tree, params, is_query).     *)
(* Segments and leaf texts are strings; parameter texts and replies are     *)
(* sequences of characters, so that re.sub, split, int, str and join are    *)
(* computed.  The items of a route list are Python values: int or str.      *)

MaxNames == 2          \* most route names in one parameter list

SlotCounts == {1, 2}

ChannelCounts == {2}

\* open_state: [int(f'{s:01d}{c:02d}') for s in 1..num_slots for c in 1..num_channels]
open_state(slots, channels) ==
    [k \in 1..(slots * channels) |->
        IntValue(ParseInt(NatToText(((k - 1) \div channels) + 1)
                          \o Format02d(((k - 1) % channels) + 1)).n)]

\* self.state of DummyDAQ.__init__
DummyDAQ_state(slots, channels) ==
    Dict(("*CLS" :> Callable("clear_status")) @@ ("*RST" :> Callable("reset"))
         @@ ("*IDN" :> Leaf("34970A")) @@ ("*OPC" :> Leaf("1")) @@ ("*ESR" :> Leaf("1"))
         @@ ("ROUTE" :> Dict(("OPEN" :> List(open_state(slots, channels)))
                             @@ ("CLOSE" :> List(<<>>)) @@ ("DONE" :> Leaf("1"))))
         @@ ("MEASURE" :> Dict(("TEMPERATURE" :> Leaf("+2.12340000E+01"))
                               @@ ("RHUMIDITY" :> Leaf("+5.00000000E+01")))))

\* mutant: the table has no entry for CLOS
map_commands_NoClos(cmd) ==
    CASE cmd \in {"MEAS", "MEASURE"} -> "MEASURE"
      [] cmd \in {"TEMP", "TEMPERATURE"} -> "TEMPERATURE"
      [] cmd \in {"RH", "RHUMIDITY"} -> "RHUMIDITY"
      [] cmd \in {"ROUT", "ROUTE"} -> "ROUTE"
      [] cmd = "OPEN" -> "OPEN"
      [] cmd = "CLOSE" -> "CLOSE"
      [] OTHER -> cmd

\* self.map_commands.get(cmd, cmd)
map_commands(cmd) ==
    CASE cmd \in {"MEAS", "MEASURE"} -> "MEASURE"
      [] cmd \in {"TEMP", "TEMPERATURE"} -> "TEMPERATURE"
      [] cmd \in {"RH", "RHUMIDITY"} -> "RHUMIDITY"
      [] cmd \in {"ROUT", "ROUTE"} -> "ROUTE"
      [] cmd = "OPEN" -> "OPEN"
      [] cmd \in {"CLOS", "CLOSE"} -> "CLOSE"
      [] OTHER -> cmd

\* x in items, with Python's equality: an int equals no str
InList(x, items) == \E i \in 1..Len(items) : items[i] = x

\* the int keys 1, 2, 3 of a mapping, as they are written here; no str equals one
IntKeys == {"#1", "#2", "#3"}

\* key in rst, for a mapping, a string (substring test) and a list
KeyIn(key, rst) ==
    CASE rst.kind = "dict" -> key \in DOMAIN rst.children \ IntKeys
      [] rst.kind = "str" ->
            \E i \in 0..(Len(rst.text) - Len(key)) : SubSeq(rst.text, i + 1, i + Len(key)) = key
      [] rst.kind = "list" -> InList(StrValue(Chars(key)), rst.items)

\* for cmd in cmd_tree: mapped_cmd = ...; if mapped_cmd in rst: pcmd = mapped_cmd;
\* rst = rst[mapped_cmd]; else break.  `in` raises on a handler function, and
\* rst[mapped_cmd] raises on a string and on a list
RECURSIVE Walk(_, _, _)
Walk(rst, pcmd, cmd_tree) ==
    IF cmd_tree = <<>> THEN [rst |-> rst, pcmd |-> pcmd, raised |-> FALSE]
    ELSE IF rst.kind = "callable" THEN [rst |-> rst, pcmd |-> pcmd, raised |-> TRUE]
    ELSE IF ~KeyIn(map_commands(Head(cmd_tree)), rst)
    THEN [rst |-> rst, pcmd |-> pcmd, raised |-> FALSE]
    ELSE IF rst.kind = "dict"
    THEN Walk(rst.children[map_commands(Head(cmd_tree))], map_commands(Head(cmd_tree)),
              Tail(cmd_tree))
    ELSE [rst |-> rst, pcmd |-> pcmd, raised |-> TRUE]

\* route_names = re.sub(r"[@\(\)]", "", params[0]).strip().split(",")
route_names(params) == Split(Strip(RouteChars(params[1])))

\* is_valid_route(route): str(route) has three characters, slot and channel in range;
\* int(route_str[0]) raises when the first character is a sign
is_valid_route(route) ==
    LET route_str == IntToText(route)
        p == ParseInt(SubSeq(route_str, 1, 1))
        c == ParseInt(SubSeq(route_str, 2, 3))
    IN  IF Len(route_str) # 3 THEN [raised |-> FALSE, valid |-> FALSE]
        ELSE IF ~p.ok \/ ~c.ok THEN [raised |-> TRUE, valid |-> FALSE]
        ELSE [raised |-> FALSE,
              valid |-> p.n > 0 /\ p.n <= num_slots /\ c.n > 0 /\ c.n <= num_channels]

\* del items[items.index(x)]
RemoveFirst(items, x) ==
    LET k == CHOOSE i \in 1..Len(items) : items[i] = x /\ \A j \in 1..(i - 1) : items[j] # x
    IN  SubSeq(items, 1, k - 1) \o SubSeq(items, k + 1, Len(items))

\* the route lists of a state tree
OpenItems(st) == st.children["ROUTE"].children["OPEN"].items

CloseItems(st) == st.children["ROUTE"].children["CLOSE"].items

WithRoutes(st, opened, closed) ==
    [st EXCEPT !.children["ROUTE"].children["OPEN"].items = opened,
               !.children["ROUTE"].children["CLOSE"].items = closed]

\* mutant: the route is appended to the destination and left in the source
set_channel_NoDelete(st, route, closed) ==
    LET v == is_valid_route(route)
        x == IntValue(route)
    IN  IF v.raised THEN [state |-> st, raised |-> TRUE]
        ELSE IF ~v.valid THEN [state |-> st, raised |-> FALSE]
        ELSE IF closed
        THEN [state |-> IF InList(x, OpenItems(st))
                        THEN WithRoutes(st, OpenItems(st), Append(CloseItems(st), x))
                        ELSE st,
              raised |-> FALSE]
        ELSE [state |-> IF InList(x, CloseItems(st))
                        THEN WithRoutes(st, Append(OpenItems(st), x), CloseItems(st))
                        ELSE st,
              raised |-> FALSE]

\* set_channel(route, closed)
set_channel(st, route, closed) ==
    LET v == is_valid_route(route)
        x == IntValue(route)
    IN  IF v.raised THEN [state |-> st, raised |-> TRUE]
        ELSE IF ~v.valid THEN [state |-> st, raised |-> FALSE]
        ELSE IF closed
        THEN [state |-> IF InList(x, OpenItems(st))
                        THEN WithRoutes(st, RemoveFirst(OpenItems(st), x),
                                        Append(CloseItems(st), x))
                        ELSE st,
              raised |-> FALSE]
        ELSE [state |-> IF InList(x, CloseItems(st))
                        THEN WithRoutes(st, Append(OpenItems(st), x),
                                        RemoveFirst(CloseItems(st), x))
                        ELSE st,
              raised |-> FALSE]

\* for route in route_names: self.set_channel(int(route), closed)
RECURSIVE set_channels(_, _, _)
set_channels(st, names, closed) ==
    IF names = <<>> THEN [state |-> st, raised |-> FALSE]
    ELSE IF ~ParseInt(Head(names)).ok THEN [state |-> st, raised |-> TRUE]
    ELSE LET r == set_channel(st, ParseInt(Head(names)).n, closed)
         IN  IF r.raised THEN r ELSE set_channels(r.state, Tail(names), closed)

\* reply = "1" if int(route_names[0]) in rst else "0" for one name, and
\* ','.join(["1" if r in rst else "0" for r in route_names]) for several
route_flags(names, items) ==
    IF Len(names) = 1
    THEN IF ParseInt(names[1]).ok
         THEN TextReply(IF InList(IntValue(ParseInt(names[1]).n), items) THEN <<"1">> ELSE <<"0">>)
         ELSE RaisedReply("ValueError")
    ELSE TextReply(Join([i \in 1..Len(names) |->
                            IF InList(StrValue(names[i]), items) THEN <<"1">> ELSE <<"0">>]))

\* process_command(cmd_tree, params, is_query) on the state tree st: the state
\* tree it leaves and what it returns or raises
process_command(st, cmd_tree, params, is_query) ==
    LET w == Walk(st, "", cmd_tree)
    IN  IF w.raised THEN [state |-> st, reply |-> RaisedReply("TypeError")]
        ELSE IF is_query
        THEN [state |-> st,
              reply |-> IF w.rst.kind = "list" /\ Len(params) > 0
                        THEN route_flags(route_names(params), w.rst.items)
                        ELSE IF w.rst.kind = "str" THEN TextReply(Chars(w.rst.text))
                        ELSE IF w.rst.kind = "callable" THEN NoneReply
                        ELSE TextReply(Chars("-100"))]
        ELSE IF w.rst.kind = "list" /\ Len(params) > 0
        THEN LET r == set_channels(st, route_names(params), w.pcmd = "CLOSE")
             IN  [state |-> r.state,
                  reply |-> IF r.raised THEN RaisedReply("ValueError") ELSE NoneReply]
        ELSE IF w.rst.kind = "callable" THEN [state |-> st, reply |-> NoneReply]
        ELSE [state |-> st, reply |-> RaisedReply("Unknown command")]

\* what the commands are made of
Segments ==
    {"ROUT", "ROUTE", "OPEN", "CLOS", "CLOSE", "DONE", "MEAS", "TEMP", "*IDN", "*CLS",
     "1", "FOO"}

Paths ==
    {<<a>> : a \in Segments} \cup {<<a, b>> : a, b \in Segments}
        \cup {<<a, b, "FOO">> : a \in {"ROUT"}, b \in {"OPEN", "CLOS", "DONE"}}

RouteNames == {Chars("101"), Chars("102"), Chars("201"), Chars("999"), Chars("-12")}

NameLists == UNION {[1..n -> RouteNames] : n \in 0..MaxNames}

\* the parameter text the facades write: (@r1,r2,...)
RouteParam(names) == Chars("(@") \o Join(names) \o Chars(")")

\* parameters that come with a command: route lists where the path ends on a
\* route list, none or one token elsewhere
ParamsOf(st, cmd_tree) ==
    IF ~Walk(st, "", cmd_tree).raised /\ Walk(st, "", cmd_tree).rst.kind = "list"
    THEN {<<>>} \cup {<<RouteParam(names)>> : names \in NameLists}
    ELSE {<<>>, <<RouteParam(<<Chars("101")>>)>>}

\* DummyDAQ(num_slots, num_channels): the simulator as constructed
DaqInit ==
    /\ cls = "VisaResource"
    /\ ClientOpened
    /\ WaitIdle
    /\ LinkIdle
    /\ NetIdle
    /\ GenIdle
    /\ sim = "DummyDAQ"
    /\ num_slots \in SlotCounts
    /\ num_channels \in ChannelCounts
    /\ state = DummyDAQ_state(num_slots, num_channels)
    /\ recent = <<>>
    /\ DaqIdle

\* process_packet hands one command to process_command
DummyDAQ_process_command ==
    /\ dpc = "idle"
    /\ sim = "DummyDAQ"
    /\ \E cmd_tree \in Paths, is_query \in BOOLEAN :
        \E params \in ParamsOf(state, cmd_tree) :
            /\ dcmd' = Command(cmd_tree, params, is_query)
            /\ state' = process_command(state, cmd_tree, params, is_query).state
            /\ dreply' = process_command(state, cmd_tree, params, is_query).reply
    /\ dpc' = "done"
    /\ UNCHANGED <<sim, num_slots, num_channels, fcall, fresult, wire, recent>>

\* the command is served: the simulator is ready for the next one
daq_next ==
    /\ dpc = "done"
    /\ dpc' = "idle"
    /\ dcmd' = NoCommand
    /\ dreply' = NoneReply
    /\ fcall' = NoFacadeCall
    /\ fresult' = Pending
    /\ UNCHANGED <<sim, num_slots, num_channels, state, wire, recent>>

DaqNext ==
    \/ DummyDAQ_process_command /\ DaqOnly
    \/ daq_next /\ DaqOnly

DaqSpec == DaqInit /\ [][DaqNext]_vars

\* the devices of DaqWideSpec: two slots of two channels, ten slots of one channel
Devices == {<<2, 2>>, <<10, 1>>}

\* DummyDAQ(num_slots, num_channels) as constructed, a device of ten slots included
DaqWideInit ==
    /\ cls = "VisaResource"
    /\ ClientOpened
    /\ WaitIdle
    /\ LinkIdle
    /\ NetIdle
    /\ GenIdle
    /\ sim = "DummyDAQ"
    /\ \E device \in Devices :
        /\ num_slots = device[1]
        /\ num_channels = device[2]
    /\ state = DummyDAQ_state(num_slots, num_channels)
    /\ recent = <<>>
    /\ DaqIdle

DaqWideSpec == DaqWideInit /\ [][DaqNext]_vars

-----------------------------------------------------------------------------
(* The earlier simulator (testsuite/DummyInstruments.py, class DummyDAQ): routes *)
(* are kept as strings, the tree has the keys ROUT, OPEN, CLOS and DONE, and    *)
(* there is no abbreviation table.                                              *)

\* self.state of DummyInstruments.DummyDAQ.__init__
DummyInstruments_state(numPorts, numChannels) ==
    Dict(("*IDN" :> Leaf("DAQ")) @@ ("*OPC" :> Leaf("1"))
         @@ ("ROUT" :> Dict(
                ("OPEN" :> List([k \in 1..(numPorts * numChannels) |->
                                    StrValue(NatToText(((k - 1) \div numChannels) + 1)
                                             \o Format02d(((k - 1) % numChannels) + 1))]))
                @@ ("CLOS" :> List(<<>>)) @@ ("DONE" :> Leaf("1")))))

\* isValidRoute(route) on the route's text
isValidRoute(route) ==
    LET p == ParseInt(SubSeq(route, 1, 1))
        c == ParseInt(SubSeq(route, 2, 3))
    IN  IF Len(route) # 3 THEN [raised |-> FALSE, valid |-> FALSE]
        ELSE IF ~p.ok \/ ~c.ok THEN [raised |-> TRUE, valid |-> FALSE]
        ELSE [raised |-> FALSE,
              valid |-> p.n > 0 /\ p.n <= num_slots /\ c.n > 0 /\ c.n <= num_channels]

\* mutant: the route is appended to the destination and stays in the source
_setChannel_NoDelete(st, route, asClosed) ==
    LET v == isValidRoute(route)
        x == StrValue(route)
        src == IF asClosed THEN "OPEN" ELSE "CLOS"
        dst == IF asClosed THEN "CLOS" ELSE "OPEN"
        srcList == st.children["ROUT"].children[src].items
        dstList == st.children["ROUT"].children[dst].items
    IN  IF v.raised THEN [state |-> st, raised |-> TRUE]
        ELSE IF ~v.valid \/ ~InList(x, srcList) THEN [state |-> st, raised |-> FALSE]
        ELSE [state |-> [st EXCEPT !.children["ROUT"].children[dst].items =
                                        Append(dstList, x)],
              raised |-> FALSE]

\* _setChannel(route, asClosed)
_setChannel(st, route, asClosed) ==
    LET v == isValidRoute(route)
        x == StrValue(route)
        src == IF asClosed THEN "OPEN" ELSE "CLOS"
        dst == IF asClosed THEN "CLOS" ELSE "OPEN"
        srcList == st.children["ROUT"].children[src].items
        dstList == st.children["ROUT"].children[dst].items
    IN  IF v.raised THEN [state |-> st, raised |-> TRUE]
        ELSE IF ~v.valid \/ ~InList(x, srcList) THEN [state |-> st, raised |-> FALSE]
        ELSE [state |-> [st EXCEPT !.children["ROUT"].children[dst].items =
                                        Append(dstList, x),
                                   !.children["ROUT"].children[src].items =
                                        RemoveFirst(srcList, x)],
              raised |-> FALSE]

\* for route in routeNames: self._setChannel(route, asClosed)
RECURSIVE _setChannels(_, _, _)
_setChannels(st, names, asClosed) ==
    IF names = <<>> THEN [state |-> st, raised |-> FALSE]
    ELSE LET r == _setChannel(st, Head(names), asClosed)
         IN  IF r.raised THEN r ELSE _setChannels(r.state, Tail(names), asClosed)

\* for cmd in cmdTree: if cmd in rst: pcmd = cmd; rst = rst[cmd]; else break
RECURSIVE WalkTree(_, _, _)
WalkTree(rst, pcmd, cmdTree) ==
    IF cmdTree = <<>> THEN [rst |-> rst, pcmd |-> pcmd, raised |-> FALSE]
    ELSE IF ~KeyIn(Head(cmdTree), rst) THEN [rst |-> rst, pcmd |-> pcmd, raised |-> FALSE]
    ELSE IF rst.kind = "dict"
    THEN WalkTree(rst.children[Head(cmdTree)], Head(cmdTree), Tail(cmdTree))
    ELSE [rst |-> rst, pcmd |-> pcmd, raised |-> TRUE]

\* processCommand(cmdTree, params, isQuery) on the state tree st
processCommand(st, cmdTree, params, isQuery) ==
    LET w == WalkTree(st, "", cmdTree)
    IN  IF w.raised THEN [state |-> st, reply |-> RaisedReply("TypeError")]
        ELSE IF isQuery
        THEN [state |-> st,
              reply |-> IF w.rst.kind = "list" /\ Len(params) > 0
                        THEN TextReply(Join([i \in 1..Len(route_names(params)) |->
                                IF InList(StrValue(route_names(params)[i]), w.rst.items)
                                THEN <<"1">> ELSE <<"0">>]))
                        ELSE IF w.rst.kind = "str" THEN TextReply(Chars(w.rst.text))
                        ELSE TextReply(Chars("-100"))]
        ELSE IF w.rst.kind = "list" /\ Len(params) > 0
        THEN LET r == _setChannels(st, route_names(params), w.pcmd = "CLOS")
             IN  [state |-> r.state,
                  reply |-> IF r.raised THEN RaisedReply("ValueError") ELSE NoneReply]
        ELSE [state |-> st, reply |-> NoneReply]

-----------------------------------------------------------------------------
(* One command line on the wire, and the two DAQ facades: SwitchMainFrame    *)
(* (a GPIBLinkResource) and KeysightDAQ (a VisaResource).  The link delivers *)
(* the line and the reply in order and whole.                                *)

\* cmd.rstrip().upper() split into name, path, parameters and query mark, as
\* process_packet / processPacket do; the facades send upper-case lines
extract_command(line) ==
    LET cmd_parts == SplitOn(line, " ")
        cmd_tree == SplitOn(cmd_parts[1], ":")
        last == cmd_tree[Len(cmd_tree)]
        is_query == last[Len(last)] = "?"
    IN  Command([i \in 1..Len(cmd_tree) |->
                    Str(IF is_query /\ i = Len(cmd_tree) THEN RStripQuery(last)
                        ELSE cmd_tree[i])],
                Tail(cmd_parts), is_query)

\* what the simulator st of kind s does with one line: its next state and what it
\* puts on the wire (NoneReply: nothing).  DummyTCPInstrument.process_packet logs
\* an exception of process_command and answers queries only; processPacket of
\* DummyInstruments answers whenever the reply is not None and lets exceptions out
\* what process_packet sends of what process_command returned: the reply to a
\* query, nothing for a write, for None and for an exception
sendall(is_query, served) ==
    [state |-> served.state,
     reply |-> IF is_query /\ served.reply.kind = "text" THEN served.reply ELSE NoneReply]

ServeCommand(s, st, cmd) ==
    IF s = "DummyDAQ"
    THEN sendall(cmd.is_query, process_command(st, cmd.cmd_tree, cmd.params, cmd.is_query))
    ELSE processCommand(st, cmd.cmd_tree, cmd.params, cmd.is_query)

Serve(s, st, line) == ServeCommand(s, st, extract_command(line))

\* query(line) of the resource: the reply, or the read's timeout when none comes
FacadeQuery(reply) ==
    IF reply.kind = "text" THEN Returned(StrValue(reply.text))
    ELSE Raised(TransportError(0))

\* _waitForCompletion: ROUT:DONE? until the stripped numeric reply is non-zero,
\* at most until waitTime reaches the timeout; the simulator's answer to the
\* query is the same on every pass
_waitForCompletion(doneStr) ==
    IF doneStr.status = "raised" THEN doneStr
    ELSE IF isnumeric(Strip(doneStr.value.s)) /\ DecimalValue(Strip(doneStr.value.s)) # 0
    THEN Returned(NoneValue)
    ELSE Raised([type |-> "Exception", msg |-> "waitForCompletion:timeout",
                 code |-> 0, at |-> 0])

\* the command lines of the facades
RouteLine(name, channel) == Chars(name) \o Chars(" (@") \o Format03d(channel) \o Chars(")")

\* the channels the facade is used with: SCC of the device
Channels(slots, channels) == {s * 100 + c : s \in 1..slots, c \in 1..channels}

\* a facade method puts its first line on the wire
FacadeSend(facade, name, channel, text, phase) ==
    /\ dpc = "idle"
    /\ cls = facade
    /\ fcall' = FacadeCall(name, channel)
    /\ wire' = text
    /\ dpc' = phase
    /\ UNCHANGED <<sim, num_slots, num_channels, state, dcmd, dreply, fresult>>

\* SwitchMainFrame.openChannel(channel): _writeSCPI("ROUT:OPEN (@SCC)")
openChannel ==
    \E channel \in Channels(num_slots, num_channels) :
        /\ FacadeSend("GPIBLinkResource", "openChannel", channel,
                      RouteLine("ROUT:OPEN", channel), "write")
        /\ recent' = [recent EXCEPT ![channel] = "open"]

\* SwitchMainFrame.closeChannel(channel): _writeSCPI("ROUT:CLOS (@SCC)")
closeChannel ==
    \E channel \in Channels(num_slots, num_channels) :
        /\ FacadeSend("GPIBLinkResource", "closeChannel", channel,
                      RouteLine("ROUT:CLOS", channel), "write")
        /\ recent' = [recent EXCEPT ![channel] = "close"]

\* KeysightDAQ.open_channel(channel)
open_channel ==
    \E channel \in Channels(num_slots, num_channels) :
        /\ FacadeSend("VisaResource", "open_channel", channel,
                      RouteLine("ROUT:OPEN", channel), "write")
        /\ recent' = [recent EXCEPT ![channel] = "open"]

\* KeysightDAQ.close_channel(channel)
close_channel ==
    \E channel \in Channels(num_slots, num_channels) :
        /\ FacadeSend("VisaResource", "close_channel", channel,
                      RouteLine("ROUT:CLOS", channel), "write")
        /\ recent' = [recent EXCEPT ![channel] = "close"]

\* SwitchMainFrame.isChannelClosed(channel)
isChannelClosed ==
    \E channel \in Channels(num_slots, num_channels) :
        /\ FacadeSend("GPIBLinkResource", "isChannelClosed", channel,
                      RouteLine("ROUT:CLOS?", channel), "query")
        /\ recent' = recent

\* SwitchMainFrame.isChannelOpen(channel): not self.isChannelClosed(channel)
isChannelOpen ==
    \E channel \in Channels(num_slots, num_channels) :
        /\ FacadeSend("GPIBLinkResource", "isChannelOpen", channel,
                      RouteLine("ROUT:CLOS?", channel), "query")
        /\ recent' = recent

\* KeysightDAQ.is_channel_closed(channel)
is_channel_closed ==
    \E channel \in Channels(num_slots, num_channels) :
        /\ FacadeSend("VisaResource", "is_channel_closed", channel,
                      RouteLine("ROUT:CLOS?", channel), "query")
        /\ recent' = recent

\* KeysightDAQ.is_channel_open(channel)
is_channel_open ==
    \E channel \in Channels(num_slots, num_channels) :
        /\ FacadeSend("VisaResource", "is_channel_open", channel,
                      RouteLine("ROUT:CLOS?", channel), "query")
        /\ recent' = recent

\* the simulator reads the line and serves it
process_packet ==
    /\ dpc \in {"write", "query"}
    /\ \E served \in {Serve(sim, state, wire)} :
        /\ state' = served.state
        /\ dreply' = served.reply
    /\ dcmd' = extract_command(wire)
    /\ wire' = <<>>
    /\ dpc' = IF dpc = "write" THEN "written" ELSE "answered"
    /\ UNCHANGED <<sim, num_slots, num_channels, fcall, fresult, recent>>

\* _writeSCPI goes on to _waitForCompletion, which asks ROUT:DONE?
_writeSCPI ==
    /\ dpc = "written"
    /\ cls = "GPIBLinkResource"
    /\ wire' = Chars("ROUT:DONE?")
    /\ dpc' = "query"
    /\ UNCHANGED <<sim, num_slots, num_channels, state, dcmd, dreply, fcall, fresult,
                   recent>>

\* KeysightDAQ's write returns once the line is sent
facade_written ==
    /\ dpc = "written"
    /\ cls = "VisaResource"
    /\ fresult' = Returned(NoneValue)
    /\ dpc' = "done"
    /\ UNCHANGED <<sim, num_slots, num_channels, state, dcmd, dreply, fcall, wire,
                   recent>>

\* rst == '1' of the reply to ROUT:CLOS? (@SCC), negated by the open tests
ClosedResult(name, q) ==
    IF q.status = "raised" THEN q
    ELSE IF name \in {"isChannelOpen", "is_channel_open"}
    THEN Returned(BoolValue(~(q.value.s = <<"1">>)))
    ELSE Returned(BoolValue(q.value.s = <<"1">>))

\* the reply has come: the method returns
facade_answered ==
    /\ dpc = "answered"
    /\ fresult' = IF fcall.name \in {"openChannel", "closeChannel"}
                  THEN _waitForCompletion(FacadeQuery(dreply))
                  ELSE ClosedResult(fcall.name, FacadeQuery(dreply))
    /\ dpc' = "done"
    /\ UNCHANGED <<sim, num_slots, num_channels, state, dcmd, dreply, fcall, wire,
                   recent>>

\* a facade of either class, opened on a simulator of either kind as constructed;
\* no channel operation has been made
FacadeInit ==
    /\ cls \in {"VisaResource", "GPIBLinkResource"}
    /\ ClientOpened
    /\ WaitIdle
    /\ LinkIdle
    /\ NetIdle
    /\ GenIdle
    /\ sim \in {"DummyDAQ", "DummyInstruments"}
    /\ num_slots \in SlotCounts
    /\ num_channels \in ChannelCounts
    /\ state = IF sim = "DummyDAQ" THEN DummyDAQ_state(num_slots, num_channels)
               ELSE DummyInstruments_state(num_slots, num_channels)
    /\ recent = [ch \in Channels(num_slots, num_channels) |-> "none"]
    /\ DaqIdle

FacadeNext ==
    \/ openChannel /\ DaqOnly
    \/ closeChannel /\ DaqOnly
    \/ isChannelClosed /\ DaqOnly
    \/ isChannelOpen /\ DaqOnly
    \/ open_channel /\ DaqOnly
    \/ close_channel /\ DaqOnly
    \/ is_channel_closed /\ DaqOnly
    \/ is_channel_open /\ DaqOnly
    \/ process_packet /\ DaqOnly
    \/ _writeSCPI /\ DaqOnly
    \/ facade_written /\ DaqOnly
    \/ facade_answered /\ DaqOnly
    \/ daq_next /\ DaqOnly

FacadeSpec == FacadeInit /\ [][FacadeNext]_vars

-----------------------------------------------------------------------------
(* The simulated power supply and network analyser of the test suite         *)
(* (testsuite/DummyPS.py, testsuite/DummyVNA.py): their state trees, handler  *)
(* functions and dispatchers.  A leaf of a tree is a str, an int or None; the *)
(* text of an int leaf is its str().                                          *)

IntLeaf(n) ==
    [kind |-> "int", children |-> <<>>, items |-> <<>>, text |-> Str(IntToText(n)),
     fn |-> ""]

NoneLeaf ==
    [kind |-> "none", children |-> <<>>, items |-> <<>>, text |-> "", fn |-> ""]

\* process_command returned a value that is neither a str nor None
ObjectReply(type) == [kind |-> "object", text |-> <<>>, err |-> type]

\* a node of the tree handed back as it is
NodeReply(value) ==
    CASE value.kind = "str" -> TextReply(Chars(value.text))
      [] value.kind = "none" -> NoneReply
      [] OTHER -> ObjectReply(value.kind)

\* castType(params[0]): str(p), int(p), list(p); ValueError when int(p) fails
Cast(kind, p) ==
    CASE kind = "int" ->
            IF ParseInt(p).ok THEN [ok |-> TRUE, node |-> IntLeaf(ParseInt(p).n)]
            ELSE [ok |-> FALSE, node |-> NoneLeaf]
      [] kind = "list" ->
            [ok |-> TRUE, node |-> List([i \in 1..Len(p) |-> StrValue(<<p[i]>>)])]
      [] OTHER -> [ok |-> TRUE, node |-> Leaf(Str(p))]

\* the tree with the node at path replaced
RECURSIVE SetAt(_, _, _)
SetAt(node, path, value) ==
    IF path = <<>> THEN value
    ELSE [node EXCEPT !.children[Head(path)] =
                          SetAt(node.children[Head(path)], Tail(path), value)]

\* str.upper()
Upper(t) ==
    LET lower == "abcdefghijklmnopqrstuvwxyz"
        upper == "ABCDEFGHIJKLMNOPQRSTUVWXYZ"
    IN  [i \in 1..Len(t) |->
            IF \E k \in 1..26 : SubSeq(lower, k, k) = t[i]
            THEN SubSeq(upper, (CHOOSE k \in 1..26 : SubSeq(lower, k, k) = t[i]),
                        (CHOOSE k \in 1..26 : SubSeq(lower, k, k) = t[i]))
            ELSE t[i]]

\* float(text) does not raise: blanks around it, an optional sign, digits with an
\* optional point (at least one digit), an optional exponent
FloatText(t) ==
    LET u == Strip(t)
        unsigned == IF u # <<>> /\ u[1] \in {"+", "-"} THEN Tail(u) ELSE u
        parts == SplitOn(Upper(unsigned), "E")
        mantissa == SplitOn(parts[1], ".")
        exponent == IF Len(parts) = 2 /\ parts[2] # <<>> /\ parts[2][1] \in {"+", "-"}
                    THEN Tail(parts[2]) ELSE parts[Len(parts)]
        AllDigits(x) == \A i \in 1..Len(x) : x[i] \in Digits
    IN  /\ Len(parts) <= 2
        /\ Len(mantissa) <= 2
        /\ \A i \in 1..Len(mantissa) : AllDigits(mantissa[i])
        /\ \E i \in 1..Len(mantissa) : mantissa[i] # <<>>
        /\ Len(parts) = 2 => (exponent # <<>> /\ AllDigits(exponent))

\* the walk of the dispatchers of DummyPS and DummyVNA from the node leaf, reached
\* by path: `if cmd in leaf` raises on a handler, an int and None, leaf[cmd] raises
\* on a str; DummyVNA leaves the loop when it has reached a handler
RECURSIVE WalkFrom(_, _, _, _)
WalkFrom(s, leaf, path, cmds) ==
    IF cmds = <<>> \/ (s = "DummyVNA" /\ leaf.kind = "callable")
    THEN [leaf |-> leaf, path |-> path, raised |-> FALSE]
    ELSE IF leaf.kind \in {"callable", "int", "none"}
    THEN [leaf |-> leaf, path |-> path, raised |-> TRUE]
    ELSE IF ~KeyIn(Head(cmds), leaf) THEN [leaf |-> leaf, path |-> path, raised |-> FALSE]
    ELSE IF leaf.kind = "dict"
    THEN WalkFrom(s, leaf.children[Head(cmds)], Append(path, Head(cmds)), Tail(cmds))
    ELSE [leaf |-> leaf, path |-> path, raised |-> TRUE]

Unchanged(st, reply) == [state |-> st, reply |-> reply]

-----------------------------------------------------------------------------
(* DummyPS *)

\* self.state of DummyPS.__init__; the int keys 1, 2, 3 are written "#1", "#2", "#3"
DummyPS_state ==
    Dict(("*IDN" :> Leaf("PS"))
         @@ ("*OPC" :> Leaf("1"))
         @@ ("*CLS" :> Callable("clear_status"))
         @@ ("*RST" :> Callable("reset"))
         @@ ("*ESR" :> Leaf("1"))
         @@ ("#1" :> Dict(("MEASURE" :> Dict(("VOLTAGE" :> Dict(("DC" :> IntLeaf(0))))
                 @@ ("CURRENT" :> Dict(("DC" :> IntLeaf(0))))))
             @@ ("OUTPUT" :> Dict(("STATE" :> Leaf("OFF"))))
             @@ ("VOLTAGE" :> Dict(("MIN" :> Leaf("0"))
                 @@ ("MAX" :> Leaf("24"))
                 @@ ("SET" :> Leaf("0"))))
             @@ ("CURRENT" :> Dict(("MIN" :> Leaf("0"))
                 @@ ("MAX" :> Leaf("5"))
                 @@ ("SET" :> Leaf("5"))))))
         @@ ("#2" :> Dict(("MEASURE" :> Dict(("VOLTAGE" :> Dict(("DC" :> IntLeaf(0))))
                 @@ ("CURRENT" :> Dict(("DC" :> IntLeaf(0))))))
             @@ ("OUTPUT" :> Dict(("STATE" :> Leaf("OFF"))))
             @@ ("VOLTAGE" :> Dict(("MIN" :> Leaf("0"))
                 @@ ("MAX" :> Leaf("24"))
                 @@ ("SET" :> Leaf("0"))))
             @@ ("CURRENT" :> Dict(("MIN" :> Leaf("0"))
                 @@ ("MAX" :> Leaf("5"))
                 @@ ("SET" :> Leaf("5"))))))
         @@ ("#3" :> Dict(("MEASURE" :> Dict(("VOLTAGE" :> Dict(("DC" :> IntLeaf(0))))
                 @@ ("CURRENT" :> Dict(("DC" :> IntLeaf(0))))))
             @@ ("OUTPUT" :> Dict(("STATE" :> Leaf("OFF"))))
             @@ ("VOLTAGE" :> Dict(("MIN" :> Leaf("0"))
                 @@ ("MAX" :> Leaf("24"))
                 @@ ("SET" :> Leaf("0"))))
             @@ ("CURRENT" :> Dict(("MIN" :> Leaf("0"))
                 @@ ("MAX" :> Leaf("5"))
                 @@ ("SET" :> Leaf("5"))))))
         @@ ("VOLTAGE" :> Callable("_voltage_set_point_handler"))
         @@ ("CURRENT" :> Callable("_current_limit_handler"))
         @@ ("DISPLAY" :> Dict(("TEXT" :> Dict(("DATA" :> Leaf(""))
                 @@ ("CLEAR" :> NoneLeaf)))))
         @@ ("INSTRUMENT" :> Dict(("NSELECT" :> IntLeaf(1))
             @@ ("SELECT" :> Leaf("P6V")))))

\* self.map_commands.get(cmd, cmd) of DummyPS
DummyPS_map_commands(cmd) ==
    CASE cmd \in {"APPL", "APPLY"} -> "APPLY"
      [] cmd \in {"INST", "INSTRUMENT"} -> "INSTRUMENT"
      [] cmd \in {"MEAS", "MEASURE"} -> "MEASURE"
      [] cmd \in {"OUTP", "OUTPUT"} -> "OUTPUT"
      [] cmd \in {"CURR", "CURRENT"} -> "CURRENT"
      [] cmd \in {"VOLT", "VOLTAGE"} -> "VOLTAGE"
      [] cmd \in {"SEL", "SELECT"} -> "SELECT"
      [] cmd \in {"NSEL", "NSELECT"} -> "NSELECT"
      [] cmd \in {"COUP", "COUPLE"} -> "COUPLE"
      [] cmd \in {"TRIG", "TRIGGER"} -> "TRIGGER"
      [] cmd \in {"SCAL", "SCALAR"} -> "SCALAR"
      [] cmd \in {"TRAC", "TRACK"} -> "TRACK"
      [] cmd \in {"STAT", "STATE"} -> "STATE"
      [] cmd \in {"LEV", "LEVEL"} -> "LEVEL"
      [] cmd \in {"PROT", "PROTECTION"} -> "PROTECTION"
      [] cmd \in {"IMM", "IMMEDIATE"} -> "IMMEDIATE"
      [] cmd \in {"AMPL", "AMPLITUDE"} -> "AMPLITUDE"
      [] cmd \in {"INCR", "INCREMENT"} -> "INCREMENT"
      [] cmd \in {"TRIP", "TRIPPED"} -> "TRIPPED"
      [] cmd \in {"CLE", "CLEAR"} -> "CLEAR"
      [] cmd \in {"RANG", "RANGE"} -> "RANGE"
      [] cmd \in {"DEF", "DEFAULT"} -> "DEFAULT"
      [] cmd \in {"INIT", "INITIATE"} -> "INITIATE"
      [] cmd \in {"DEL", "DELAY"} -> "DELAY"
      [] cmd \in {"SEQ", "SEQUENCE"} -> "SEQUENCE"
      [] cmd \in {"SOUR", "SOURCE"} -> "SOURCE"
      [] cmd \in {"REL", "RELAY"} -> "RELAY"
      [] cmd \in {"BEEP", "BEEPER"} -> "BEEPER"
      [] cmd \in {"ERR", "ERROR"} -> "ERROR"
      [] cmd \in {"WIND", "WINDOW"} -> "WINDOW"
      [] cmd \in {"VERS", "VERSION"} -> "VERSION"
      [] OTHER -> cmd

\* self.state["INSTRUMENT"]["NSELECT"]
_curr_inst(st) == st.children["INSTRUMENT"].children["NSELECT"]

\* the key int(self._curr_inst()) of self.state
OutputKey(st) == "#" \o _curr_inst(st).text

\* mutant: a query with a field name stores the name as the set point
_voltage_set_point_handler_Stores(st, params, is_query) ==
    LET k == OutputKey(st)
        field_name == IF Len(params) > 0 THEN Str(params[1]) ELSE "SET"
    IN  IF is_query /\ Len(params) = 0
        THEN IF k \in DOMAIN st.children
             THEN Unchanged(st, NodeReply(st.children[k].children["VOLTAGE"].children["SET"]))
             ELSE Unchanged(st, RaisedReply("KeyError"))
        ELSE IF Len(params) = 0 THEN Unchanged(st, RaisedReply("IndexError"))
        ELSE IF k \notin DOMAIN st.children THEN Unchanged(st, RaisedReply("KeyError"))
        ELSE [state |-> SetAt(SetAt(st, <<k, "VOLTAGE", "SET">>, Leaf(Str(params[1]))),
                              <<k, "MEASURE", "VOLTAGE", "DC">>, Leaf(Str(params[1]))),
              reply |-> IF is_query THEN TextReply(params[1]) ELSE NoneReply]

\* _voltage_set_point_handler(params, is_query)
_voltage_set_point_handler(st, params, is_query) ==
    LET k == OutputKey(st)
        field_name == IF Len(params) > 0 THEN Str(params[1]) ELSE "SET"
    IN  IF is_query
        THEN IF k \in DOMAIN st.children
                /\ field_name \in DOMAIN st.children[k].children["VOLTAGE"].children
             THEN Unchanged(st, NodeReply(st.children[k].children["VOLTAGE"].children[field_name]))
             ELSE Unchanged(st, RaisedReply("KeyError"))
        ELSE IF Len(params) = 0 THEN Unchanged(st, RaisedReply("IndexError"))
        ELSE IF k \notin DOMAIN st.children THEN Unchanged(st, RaisedReply("KeyError"))
        ELSE [state |-> SetAt(SetAt(st, <<k, "VOLTAGE", "SET">>, Leaf(Str(params[1]))),
                              <<k, "MEASURE", "VOLTAGE", "DC">>, Leaf(Str(params[1]))),
              reply |-> NoneReply]

\* _current_limit_handler(params, is_query)
_current_limit_handler(st, params, is_query) ==
    LET k == OutputKey(st)
        field_name == IF Len(params) > 0 THEN Str(params[1]) ELSE "SET"
    IN  IF is_query
        THEN IF k \in DOMAIN st.children
                /\ field_name \in DOMAIN st.children[k].children["CURRENT"].children
             THEN Unchanged(st, NodeReply(st.children[k].children["CURRENT"].children[field_name]))
             ELSE Unchanged(st, RaisedReply("KeyError"))
        ELSE IF Len(params) = 0 THEN Unchanged(st, RaisedReply("IndexError"))
        ELSE IF k \notin DOMAIN st.children THEN Unchanged(st, RaisedReply("KeyError"))
        ELSE [state |-> SetAt(st, <<k, "CURRENT", "SET">>, Leaf(Str(params[1]))),
              reply |-> NoneReply]

\* value(params, is_query) for the handler functions of DummyPS; clear_status and
\* reset return None
DummyPS_call(st, fn, params, is_query) ==
    CASE fn = "_voltage_set_point_handler" -> _voltage_set_point_handler(st, params, is_query)
      [] fn = "_current_limit_handler" -> _current_limit_handler(st, params, is_query)
      [] OTHER -> Unchanged(st, NoneReply)

\* process_query(state, value, cmd, params)
process_query(st, value, params) ==
    IF value.kind = "callable" THEN DummyPS_call(st, value.fn, params, TRUE)
    ELSE IF value.kind = "dict" /\ Len(params) > 0
    THEN Unchanged(st, IF KeyIn(Str(params[1]), value)
                       THEN NodeReply(value.children[Str(params[1])])
                       ELSE TextReply(Chars("-100")))
    ELSE IF value.kind \in {"str", "int"} THEN Unchanged(st, TextReply(Chars(value.text)))
    ELSE Unchanged(st, TextReply(Chars("-100")))

\* process_write(state, value, cmd, params): state[cmd] is the node at path
process_write(st, value, path, params) ==
    IF value.kind = "callable" THEN DummyPS_call(st, value.fn, params, FALSE)
    ELSE IF value.kind \in {"str", "int"}
    THEN IF Len(params) = 0 THEN Unchanged(st, NoneReply)
         ELSE IF Cast(value.kind, params[1]).ok
         THEN [state |-> SetAt(st, path, Cast(value.kind, params[1]).node),
               reply |-> NoneReply]
         ELSE Unchanged(st, RaisedReply("ValueError"))
    ELSE Unchanged(st, RaisedReply("Unknown command"))

\* DummyPS.process_command(cmd_tree, params, is_query)
PS_process_command(st, cmd_tree, params, is_query) ==
    LET mapped_cmd_tree == [i \in 1..Len(cmd_tree) |-> DummyPS_map_commands(cmd_tree[i])]
        output == mapped_cmd_tree[1] \in {"MEASURE", "OUTPUT"}
        k == OutputKey(st)
        w == IF output THEN WalkFrom("DummyPS", st.children[k], <<k>>, mapped_cmd_tree)
             ELSE WalkFrom("DummyPS", st, <<>>, mapped_cmd_tree)
    IN  IF output /\ k \notin DOMAIN st.children THEN Unchanged(st, RaisedReply("KeyError"))
        ELSE IF w.raised THEN Unchanged(st, RaisedReply("TypeError"))
        ELSE IF is_query THEN process_query(st, w.leaf, params)
        ELSE process_write(st, w.leaf, w.path, params)

-----------------------------------------------------------------------------
(* DummyVNA *)

\* self.state of DummyVNA.__init__
DummyVNA_state ==
    Dict(("*CLS" :> Callable("clear_status"))
         @@ ("*RST" :> Callable("reset"))
         @@ ("*IDN" :> Leaf("VNA"))
         @@ ("*OPC" :> Leaf("1"))
         @@ ("*ESR" :> Leaf("1"))
         @@ ("SENSE" :> Dict(("X" :> Dict(("VALUES" :> Callable("_get_x_data"))))
             @@ ("AVERAGE" :> Dict(("STATE" :> IntLeaf(1))
                 @@ ("MODE" :> Leaf("SWEEP"))
                 @@ ("COUNT" :> IntLeaf(1))))
             @@ ("BWIDTH" :> Leaf("1000"))
             @@ ("FREQUENCY" :> Dict(("START" :> Leaf("1E7"))
                 @@ ("STOP" :> Leaf("2E10"))
                 @@ ("CENTER" :> Leaf("5E8"))
                 @@ ("CW" :> Leaf("5E8"))))
             @@ ("SWEEP" :> Dict(("POINTS" :> Leaf("2000"))
                 @@ ("STEP" :> Leaf("1E7"))
                 @@ ("TYPE" :> Leaf("LINEAR"))
                 @@ ("POWER" :> Leaf("10"))
                 @@ ("MODE" :> Leaf("SINGLE"))
                 @@ ("TIME" :> Leaf("0.1"))))
             @@ ("CORRECTION" :> Dict(("CSET" :> Dict(("ACTIVATE" :> Leaf(""))
                     @@ ("DEACTIVATE" :> Leaf(""))
                     @@ ("CATALOG" :> Leaf("calset1,calset2"))
                     @@ ("DESCRIPTION" :> Leaf("A calset description."))
                     @@ ("DATA" :> Leaf("1,2,3,4,5"))
                     @@ ("ETERM" :> Leaf("Directivity(1,1)"))
                     @@ ("NAME" :> Leaf("calset1"))
                     @@ ("CREATE" :> Leaf(""))))
                 @@ ("STATE" :> IntLeaf(1))
                 @@ ("COLLECTION" :> Dict(("GUIDED" :> Dict(("STEPS" :> Leaf("3"))
                         @@ ("DESCRIPTION" :> Callable("get_ecal_description"))
                         @@ ("CONNECTOR" :> Dict(("PORT1" :> Leaf(""))
                             @@ ("PORT2" :> Leaf(""))
                             @@ ("PORT3" :> Leaf(""))
                             @@ ("PORT4" :> Leaf(""))))
                         @@ ("CKIT" :> Dict(("PORT1" :> Leaf(""))
                             @@ ("PORT2" :> Leaf(""))
                             @@ ("PORT3" :> Leaf(""))
                             @@ ("PORT4" :> Leaf(""))))
                         @@ ("ACQUIRE" :> NoneLeaf)
                         @@ ("SAVE" :> Dict(("CSET" :> NoneLeaf)))
                         @@ ("THRU" :> Dict(("PORTS" :> List(<<IntValue(1), IntValue(2), IntValue(1), IntValue(3), IntValue(1), IntValue(4)>>))))
                         @@ ("INITIATE" :> Leaf("+1"))))))
                 @@ ("INTERPOLATE" :> Leaf("ON"))
                 @@ ("PREFERENCE" :> Dict(("ECAL" :> Dict(("ORIENTATION" :> Leaf("ON"))))))
                 @@ ("CKIT" :> Dict(("ECAL" :> Dict(("LIST" :> Leaf("+1"))))
                     @@ ("ECAL1" :> Dict(("INF" :> Leaf("\"ModelNumber: N4691-60006, SerialNumber: 16194, ConnectorType: 35F 35F, PortAConnector: APC 3.5 female, PortBConnector: APC 3.5 female, MinFreq: 300000, MaxFreq: 26500000000, NumberOfPoints: 583, Calibrated: 19/Sep/2018, CharacterizedBy: 15N5239932, \"\n"))))))))))
         @@ ("CALCULATE" :> Dict(("PARAMETER" :> Dict(("DELETE" :> Dict(("ALL" :> NoneLeaf)))
                 @@ ("DEFINE" :> Leaf("'sdd11',S11"))
                 @@ ("SELECT" :> Leaf("'sdd11'"))))
             @@ ("FSIMULATOR" :> Dict(("BALUN" :> Dict(("DEVICE" :> NoneLeaf)
                     @@ ("TOPOLOGY" :> Dict(("BBALANCED" :> Dict(("PPORTS" :> Leaf("1,2,3,4"))))))
                     @@ ("PARAMETER" :> Dict(("STATE" :> Leaf("ON"))
                         @@ ("BBALANCED" :> Dict(("DEFINE" :> Leaf("SDD11"))))))))))
             @@ ("DATA" :> Callable("_get_data"))
             @@ ("FORMAT" :> Leaf("MLOG"))))
         @@ ("DISPLAY" :> Dict(("ENABLE" :> IntLeaf(1))
             @@ ("WIND1" :> Dict(("TRAC1" :> Dict(("FEED" :> Leaf("sdd11"))))
                 @@ ("TRAC2" :> Dict(("FEED" :> Leaf("sdd12"))))
                 @@ ("TRAC3" :> Dict(("FEED" :> Leaf("sdd21"))))
                 @@ ("TRAC4" :> Dict(("FEED" :> Leaf("sdd22"))))
                 @@ ("STATE" :> Leaf("OFF"))))
             @@ ("WIND2" :> Dict(("TRAC1" :> Dict(("FEED" :> Leaf("sdd11"))))
                 @@ ("TRAC2" :> Dict(("FEED" :> Leaf("sdd12"))))
                 @@ ("TRAC3" :> Dict(("FEED" :> Leaf("sdd21"))))
                 @@ ("TRAC4" :> Dict(("FEED" :> Leaf("sdd22"))))
                 @@ ("STATE" :> Leaf("OFF"))))
             @@ ("WIND3" :> Dict(("TRAC1" :> Dict(("FEED" :> Leaf("sdd11"))))
                 @@ ("TRAC2" :> Dict(("FEED" :> Leaf("sdd12"))))
                 @@ ("TRAC3" :> Dict(("FEED" :> Leaf("sdd21"))))
                 @@ ("TRAC4" :> Dict(("FEED" :> Leaf("sdd22"))))
                 @@ ("STATE" :> Leaf("OFF"))))
             @@ ("WIND4" :> Dict(("TRAC1" :> Dict(("FEED" :> Leaf("sdd11"))))
                 @@ ("TRAC2" :> Dict(("FEED" :> Leaf("sdd12"))))
                 @@ ("TRAC3" :> Dict(("FEED" :> Leaf("sdd21"))))
                 @@ ("TRAC4" :> Dict(("FEED" :> Leaf("sdd22"))))
                 @@ ("STATE" :> Leaf("OFF"))))))
         @@ ("TRIGGER" :> Dict(("SOURCE" :> Leaf("IMMediate"))))
         @@ ("MMEMORY" :> Dict(("STORE" :> Dict(("TRACE" :> Dict(("FORMAT" :> Dict(("SNP" :> Leaf("RI"))))))))))
         @@ ("FORMAT" :> Dict(("DATA" :> Leaf("ASCii,+0")))))

\* self.map_commands.get(cmd, cmd) of DummyVNA
DummyVNA_map_commands(cmd) ==
    CASE cmd \in {"CALC1", "CALCULATE1", "CALC", "CALCULATE"} -> "CALCULATE"
      [] cmd \in {"SENS1", "SENSE1", "SENS", "SENSE"} -> "SENSE"
      [] cmd \in {"CALP", "CALPOD"} -> "CALPOD"
      [] cmd \in {"CONT", "CONTROL"} -> "CONTROL"
      [] cmd \in {"DISP", "DISPLAY"} -> "DISPLAY"
      [] cmd \in {"DEAC", "DEACTIVATE"} -> "DEACTIVATE"
      [] cmd \in {"FORM", "FORMAT"} -> "FORMAT"
      [] cmd \in {"HCOP", "HCOPY"} -> "HCOPY"
      [] cmd \in {"INIT", "INITIATE"} -> "INITIATE"
      [] cmd \in {"MMEM", "MMEMORY"} -> "MMEMORY"
      [] cmd \in {"OUTP", "OUTPUT"} -> "OUTPUT"
      [] cmd \in {"ROUT", "ROUTE"} -> "ROUTE"
      [] cmd \in {"STAT", "STATUS"} -> "STATUS"
      [] cmd \in {"SYST", "SYSTEM"} -> "SYSTEM"
      [] cmd \in {"TRIG", "TRIGGER"} -> "TRIGGER"
      [] cmd \in {"CORR", "CORRECTION"} -> "CORRECTION"
      [] cmd \in {"CUST", "CUSTOM"} -> "CUSTOM"
      [] cmd \in {"EQU", "EQUATION"} -> "EQUATION"
      [] cmd \in {"FILT", "FILTER"} -> "FILTER"
      [] cmd \in {"FSIM", "FSIMULATOR"} -> "FSIMULATOR"
      [] cmd \in {"FUNC", "FUNCTION"} -> "FUNCTION"
      [] cmd \in {"GDELA", "GDELAY"} -> "GDELAY"
      [] cmd \in {"LIM", "LIMIT"} -> "LIMIT"
      [] cmd \in {"MARK", "MARKER"} -> "MARKER"
      [] cmd \in {"MIX", "MIXER"} -> "MIXER"
      [] cmd \in {"NORM", "NORMALIZE"} -> "NORMALIZE"
      [] cmd \in {"OFFSet", "OFFSET"} -> "OFFSET"
      [] cmd \in {"PAR", "PARAMETER"} -> "PARAMETER"
      [] cmd \in {"RDAT", "RDATA"} -> "RDATA"
      [] cmd \in {"DATA"} -> "DATA"
      [] cmd \in {"SDATA"} -> "SDATA"
      [] cmd \in {"SMO", "SMOOTHING"} -> "SMOOTHING"
      [] cmd \in {"TRANS", "TRANSFORM"} -> "TRANSFORM"
      [] cmd \in {"UNC", "UNCERTAINTY"} -> "UNCERTAINTY"
      [] cmd \in {"COLL", "COLLECTION"} -> "COLLECTION"
      [] cmd \in {"GUID", "GUIDED"} -> "GUIDED"
      [] cmd \in {"ABOR", "ABORT"} -> "ABORT"
      [] cmd \in {"DEL", "DELETE"} -> "DELETE"
      [] cmd \in {"DEF", "DEFINE"} -> "DEFINE"
      [] cmd \in {"CAT", "CATALOG"} -> "CATALOG"
      [] cmd \in {"MOD", "MODIFY"} -> "MODIFY"
      [] cmd \in {"SEL", "SELECT"} -> "SELECT"
      [] cmd \in {"EXT", "EXTENDED"} -> "EXTENDED"
      [] cmd \in {"DESC", "DESCRIPTION"} -> "DESCRIPTION"
      [] cmd \in {"CONN", "CONNECTOR"} -> "CONNECTOR"
      [] cmd \in {"ACQ", "ACQUIRE"} -> "ACQUIRE"
      [] cmd \in {"CHAN", "CHANNEL"} -> "CHANNEL"
      [] cmd \in {"PORT", "PORTS"} -> "PORTS"
      [] cmd \in {"ACT", "ACTIVATE"} -> "ACTIVATE"
      [] cmd \in {"PREF", "PREFERENCE"} -> "PREFERENCE"
      [] cmd \in {"ORI", "ORIENTATION"} -> "ORIENTATION"
      [] cmd \in {"BAL", "BALUN"} -> "BALUN"
      [] cmd \in {"DEV", "DEVICE"} -> "DEVICE"
      [] cmd \in {"TOP", "TOPOLOGY"} -> "TOPOLOGY"
      [] cmd \in {"BBAL", "BBALANCED"} -> "BBALANCED"
      [] cmd \in {"PPOR", "PPORTS"} -> "PPORTS"
      [] cmd \in {"POINT", "POINTS"} -> "POINTS"
      [] cmd \in {"PORT1"} -> "PORT1"
      [] cmd \in {"PORT2"} -> "PORT2"
      [] cmd \in {"PORT3"} -> "PORT3"
      [] cmd \in {"PORT4"} -> "PORT4"
      [] cmd \in {"THRU"} -> "THRU"
      [] cmd \in {"STEPS"} -> "STEPS"
      [] cmd \in {"SOUR", "SOURCE"} -> "SOURCE"
      [] cmd \in {"CSET"} -> "CSET"
      [] cmd \in {"INT"} -> "INTERPOLATE"
      [] cmd \in {"COUN", "COUNT"} -> "COUNT"
      [] cmd \in {"SNP"} -> "SNP"
      [] cmd \in {"BWID", "BWIDTH", "BAND", "BANDWIDTH"} -> "BWIDTH"
      [] cmd \in {"ETERM", "ETER"} -> "ETERM"
      [] cmd \in {"WIND", "WINDOW"} -> "WINDOW"
      [] cmd \in {"TRAC", "TRACE"} -> "TRACE"
      [] cmd \in {"STOR", "STORE"} -> "STORE"
      [] cmd \in {"AVER", "AVERAGE"} -> "AVERAGE"
      [] cmd \in {"CRE", "CREATE"} -> "CREATE"
      [] cmd \in {"ENAB", "ENABLE"} -> "ENABLE"
      [] OTHER -> cmd

num_ports == 4

\* np.random.permutation(range(self.num_ports))[:2], each plus one
PortPairs == {<<a, b>> : a, b \in 1..num_ports} \ {<<a, a>> : a \in 1..num_ports}

\* the sweep settings a data handler converts: int(float(POINTS)), float(START),
\* float(STOP)
SweepNode(st, group, key) == st.children["SENSE"].children[group].children[key]

\* _get_x_data(params, is_query).  The data line is written as the call that
\* computes it, np.linspace or np.logspace of the start, stop and points texts
_get_x_data(st, params, is_query) ==
    LET points == Chars(SweepNode(st, "SWEEP", "POINTS").text)
        s_type == Chars(SweepNode(st, "SWEEP", "TYPE").text)
        f_start == Chars(SweepNode(st, "FREQUENCY", "START").text)
        f_stop == Chars(SweepNode(st, "FREQUENCY", "STOP").text)
    IN  IF ~is_query THEN Unchanged(st, NoneReply)
        ELSE IF ~FloatText(points) \/ ~FloatText(f_start) \/ ~FloatText(f_stop)
        THEN Unchanged(st, RaisedReply("ValueError"))
        ELSE Unchanged(st, TextReply(
                 (IF Len(s_type) >= 3 /\ SubSeq(Upper(s_type), 1, 3) = Chars("LOG")
                  THEN Chars("logspace(") ELSE Chars("linspace("))
                 \o f_start \o <<",">> \o f_stop \o <<",">> \o points \o <<")">>))

\* _get_data(params, is_query): np.random.rand(num_points), written as the draw
\* rnd of the count it is made for
_get_data(st, cmd_tree, params, is_query, rnd) ==
    LET points == Chars(SweepNode(st, "SWEEP", "POINTS").text)
        snp == \E i \in 1..Len(cmd_tree) : cmd_tree[i] = "SNP"
        nports == IF Len(params) > 0 THEN Len(Split(params[1])) ELSE num_ports
        is_complex == Len(params) > 0 /\ params[1] \in {Chars("RDATA"), Chars("SDATA")}
    IN  IF ~is_query THEN Unchanged(st, NoneReply)
        ELSE IF ~FloatText(points) THEN Unchanged(st, RaisedReply("ValueError"))
        ELSE Unchanged(st, TextReply(
                 Chars("rand") \o NatToText(rnd[1]) \o NatToText(rnd[2]) \o <<"(">> \o points
                 \o (IF snp THEN Chars("*(1+2*") \o NatToText(nports * nports) \o <<")">>
                     ELSE IF is_complex THEN Chars("*2") ELSE <<>>)
                 \o <<")">>))

\* get_ecal_description(params, is_query)
get_ecal_description(st, rnd) ==
    Unchanged(st, TextReply(Chars("Please connect e-cal module from port ") \o NatToText(rnd[1])
                            \o Chars(" to port ") \o NatToText(rnd[2])))

\* mutant: the x values are drawn like the data
DummyVNA_call_Data(st, fn, cmd_tree, params, is_query, rnd) ==
    CASE fn \in {"_get_x_data", "_get_data"} -> _get_data(st, cmd_tree, params, is_query, rnd)
      [] fn = "get_ecal_description" -> get_ecal_description(st, rnd)
      [] OTHER -> Unchanged(st, NoneReply)

\* rst(params, is_query) for the handler functions of DummyVNA; clear_status and
\* reset return None
DummyVNA_call(st, fn, cmd_tree, params, is_query, rnd) ==
    CASE fn = "_get_x_data" -> _get_x_data(st, params, is_query)
      [] fn = "_get_data" -> _get_data(st, cmd_tree, params, is_query, rnd)
      [] fn = "get_ecal_description" -> get_ecal_description(st, rnd)
      [] OTHER -> Unchanged(st, NoneReply)

\* DummyVNA.process_command(cmd_tree, params, is_query); rnd is what the random
\* generator yields during the call
VNA_process_command(st, cmd_tree, params, is_query, rnd) ==
    LET w == WalkFrom("DummyVNA", st, <<>>,
                      [i \in 1..Len(cmd_tree) |-> DummyVNA_map_commands(cmd_tree[i])])
        rst == w.leaf
    IN  IF w.raised THEN Unchanged(st, RaisedReply("TypeError"))
        ELSE IF is_query
        THEN IF rst.kind \in {"str", "int"} THEN Unchanged(st, TextReply(Chars(rst.text)))
             ELSE IF rst.kind = "callable"
             THEN Unchanged(st, DummyVNA_call(st, rst.fn, cmd_tree, params, TRUE, rnd).reply)
             ELSE Unchanged(st, TextReply(Chars("-100")))
        ELSE IF rst.kind = "callable"
        THEN Unchanged(DummyVNA_call(st, rst.fn, cmd_tree, params, FALSE, rnd).state, NoneReply)
        ELSE IF w.path # <<>> /\ rst.kind \in {"str", "int", "list", "none"}
        THEN IF Len(params) = 0 THEN Unchanged(st, NoneReply)
             ELSE IF Cast(rst.kind, params[1]).ok
             THEN [state |-> SetAt(st, w.path, Cast(rst.kind, params[1]).node),
                   reply |-> NoneReply]
             ELSE Unchanged(st, RaisedReply("ValueError"))
        ELSE Unchanged(st, RaisedReply("Unknown command"))

-----------------------------------------------------------------------------
(* The three simulators, one command at a time *)

\* the commands with the paths, parameter lists and kinds given
Commands(paths, paramlists, kinds) ==
    {Command(p, a, q) : p \in paths, a \in paramlists, q \in kinds}

\* commands DummyPS is sent
DummyPS_commands ==
    Commands({<<"VOLT">>}, {<<>>, <<Chars("5.00")>>}, {FALSE})
    \cup Commands({<<"VOLT">>, <<"CURR">>}, {<<>>, <<Chars("MAX")>>, <<Chars("FOO")>>}, {TRUE})
    \cup Commands({<<"CURR">>, <<"MEAS", "VOLT", "DC">>, <<"MEAS", "FOO">>, <<"FOO">>},
                  {<<>>}, BOOLEAN)
    \cup Commands({<<"INST", "NSEL">>}, {<<>>, <<Chars("2")>>, <<Chars("7")>>, <<Chars("X")>>},
                  BOOLEAN)
    \cup Commands({<<"INST", "SEL">>, <<"*IDN", "FOO">>, <<"VOLT", "FOO">>,
                   <<"INST", "NSEL", "FOO">>},
                  {<<>>, <<Chars("2")>>}, BOOLEAN)
    \cup Commands({<<"INST">>, <<"FOO", "VOLT">>},
                  {<<>>, <<Chars("SELECT")>>, <<Chars("NSELECT")>>, <<Chars("VOLTAGE")>>},
                  BOOLEAN)
    \cup Commands({<<"OUTP", "STAT">>, <<"OUTPUT">>, <<"MEAS", "VOLT">>},
                  {<<>>, <<Chars("ON")>>, <<Chars("DC")>>}, BOOLEAN)
    \cup Commands({<<"DISPLAY", "TEXT", "CLE">>, <<"DISPLAY", "TEXT">>, <<"*CLS">>, <<"*IDN">>},
                  {<<>>, <<Chars("1")>>}, BOOLEAN)

\* commands DummyVNA is sent
DummyVNA_commands ==
    Commands({<<"SENSE1", "SWEEP", "POINTS">>, <<"SENS", "AVER", "COUN">>,
              <<"SENS", "CORR", "COLL", "GUID", "ACQ">>,
              <<"SENS", "CORR", "COLL", "GUID", "THRU", "PORT">>},
             {<<>>, <<Chars("5")>>, <<Chars("LOG")>>}, BOOLEAN)
    \cup Commands({<<"SENS", "SWEEP", "TYPE">>, <<"SENS", "AVER", "STAT">>,
                   <<"SENS", "CORR", "COLL", "GUID", "DESC">>,
                   <<"SENS", "X", "VALUES">>, <<"SENS", "X", "VALUES", "FOO">>,
                   <<"CALC", "DATA">>, <<"CALC", "DATA", "SNP">>,
                   <<"*CLS">>, <<"*IDN", "FOO">>, <<"*IDN", "N">>, <<"SENS">>, <<"FOO">>,
                   <<"SENS", "FOO">>, <<"SENS", "AVER", "COUN", "FOO">>},
                  {<<>>, <<Chars("LOG")>>}, BOOLEAN)

\* one of the simulators as constructed
SimInit ==
    /\ cls = "VisaResource"
    /\ ClientOpened
    /\ WaitIdle
    /\ LinkIdle
    /\ NetIdle
    /\ GenIdle
    /\ \/ /\ sim = "DummyDAQ"
          /\ num_slots \in SlotCounts
          /\ num_channels \in ChannelCounts
          /\ state = DummyDAQ_state(num_slots, num_channels)
       \/ /\ sim = "DummyPS"
          /\ num_slots = 0
          /\ num_channels = 0
          /\ state = DummyPS_state
       \/ /\ sim = "DummyVNA"
          /\ num_slots = 0
          /\ num_channels = 0
          /\ state = DummyVNA_state
    /\ recent = <<>>
    /\ DaqIdle

\* process_packet hands one command to DummyPS.process_command
DummyPS_process_command ==
    /\ dpc = "idle"
    /\ sim = "DummyPS"
    /\ \E cmd \in DummyPS_commands :
        \E served \in {PS_process_command(state, cmd.cmd_tree, cmd.params, cmd.is_query)} :
            /\ dcmd' = cmd
            /\ state' = served.state
            /\ dreply' = served.reply
    /\ dpc' = "done"
    /\ recent' = <<>>
    /\ UNCHANGED <<sim, num_slots, num_channels, fcall, fresult, wire>>

\* process_packet hands one command to DummyVNA.process_command
DummyVNA_process_command ==
    /\ dpc = "idle"
    /\ sim = "DummyVNA"
    /\ \E cmd \in DummyVNA_commands, rnd \in PortPairs :
        \E served \in {VNA_process_command(state, cmd.cmd_tree, cmd.params, cmd.is_query, rnd)} :
            /\ dcmd' = cmd
            /\ state' = served.state
            /\ dreply' = served.reply
    /\ dpc' = "done"
    /\ UNCHANGED <<sim, num_slots, num_channels, fcall, fresult, wire, recent>>

SimNext ==
    \/ DummyDAQ_process_command /\ DaqOnly
    \/ DummyPS_process_command /\ DaqOnly
    \/ DummyVNA_process_command /\ DaqOnly
    \/ daq_next /\ DaqOnly

SimSpec == SimInit /\ [][SimNext]_vars

-----------------------------------------------------------------------------
(* KeysightPSU against DummyPS *)

\* a float that is a finite decimal: m * 10^(-e), with no trailing zero in m
RECURSIVE Float(_, _)
Float(m, e) ==
    IF m = 0 THEN [tag |-> "float", s |-> TxtEmpty, n |-> 0, b |-> FALSE, e |-> 0]
    ELSE IF m % 10 = 0 THEN Float(m \div 10, e - 1)
    ELSE [tag |-> "float", s |-> TxtEmpty, n |-> m, b |-> FALSE, e |-> e]

RECURSIVE Pow10(_)
Pow10(k) == IF k <= 0 THEN 1 ELSE 10 * Pow10(k - 1)

\* mutant: the digits after the precision are cut off
FormatFixed_Truncates(x, precision) ==
    LET scaled == IF x.e <= precision THEN x.n * Pow10(precision - x.e)
                  ELSE x.n \div Pow10(x.e - precision)
        whole == NatToText(scaled \div Pow10(precision))
        frac == NatToText(scaled % Pow10(precision))
    IN  IF precision = 0 THEN whole
        ELSE whole \o <<".">> \o [i \in 1..(precision - Len(frac)) |-> "0"] \o frac

\* f'{x:0.{precision}f}' of a non-negative x: x rounded to precision decimals, a tie
\* to the even neighbour (the ties of Voltages are binary fractions), then the
\* digits with precision places after the point and no point for precision 0
FormatFixed(x, precision) ==
    LET unit == Pow10(x.e - precision)
        q == x.n \div unit
        r == x.n % unit
        scaled == IF x.e <= precision THEN x.n * Pow10(precision - x.e)
                  ELSE IF 2 * r > unit \/ (2 * r = unit /\ q % 2 = 1) THEN q + 1
                  ELSE q
        whole == NatToText(scaled \div Pow10(precision))
        frac == NatToText(scaled % Pow10(precision))
    IN  IF precision = 0 THEN whole
        ELSE whole \o <<".">> \o [i \in 1..(precision - Len(frac)) |-> "0"] \o frac

\* float(text) of a text float() accepts
ParseFloat(t) ==
    LET u == Strip(t)
        negative == u # <<>> /\ u[1] = "-"
        unsigned == IF u # <<>> /\ u[1] \in {"+", "-"} THEN Tail(u) ELSE u
        parts == SplitOn(Upper(unsigned), "E")
        mantissa == SplitOn(parts[1], ".")
        decimals == IF Len(mantissa) = 2 THEN mantissa[2] ELSE <<>>
        exponent == IF Len(parts) = 1 THEN 0 ELSE ParseInt(parts[2]).n
        m == DecimalValue(mantissa[1] \o decimals)
    IN  IF Len(decimals) >= exponent
        THEN Float(IF negative THEN 0 - m ELSE m, Len(decimals) - exponent)
        ELSE Float((IF negative THEN 0 - m ELSE m) * Pow10(exponent - Len(decimals)), 0)

\* float(self.query('VOLT?'))
float(q) ==
    IF q.status = "raised" THEN q
    ELSE IF FloatText(q.value.s) THEN Returned(ParseFloat(q.value.s))
    ELSE Raised(DecodeError(0))

\* the voltages and precisions set_voltage_set_point is called with: 5.0 and 5.127,
\* no decimals and the default of two
Voltages == {Float(5, 0), Float(5127, 3)}

Precisions == {0, 2}

\* KeysightPSU.set_voltage_set_point(voltage, precision): write(f'VOLT {voltage:0.{precision}f}'),
\* which process_packet of the simulator serves; write returns None
set_voltage_set_point ==
    /\ dpc = "idle"
    /\ sim = "DummyPS"
    /\ \E voltage \in Voltages, precision \in Precisions :
        \E cmd \in {extract_command(Chars("VOLT ") \o FormatFixed(voltage, precision))} :
            \E served \in {sendall(cmd.is_query,
                                   PS_process_command(state, cmd.cmd_tree, cmd.params,
                                                      cmd.is_query))} :
                /\ dcmd' = cmd
                /\ state' = served.state
                /\ dreply' = served.reply
                /\ recent' = <<[voltage |-> voltage, precision |-> precision]>>
    /\ fcall' = FacadeCall("set_voltage_set_point", 0)
    /\ fresult' = Returned(NoneValue)
    /\ dpc' = "done"
    /\ UNCHANGED <<sim, num_slots, num_channels, wire>>

\* KeysightPSU.get_voltage_set_point(): float(self.query('VOLT?'))
get_voltage_set_point ==
    /\ dpc = "idle"
    /\ sim = "DummyPS"
    /\ \E cmd \in {extract_command(Chars("VOLT?"))} :
        \E served \in {sendall(cmd.is_query,
                               PS_process_command(state, cmd.cmd_tree, cmd.params,
                                                  cmd.is_query))} :
            /\ dcmd' = cmd
            /\ state' = served.state
            /\ dreply' = served.reply
            /\ fresult' = float(FacadeQuery(served.reply))
    /\ fcall' = FacadeCall("get_voltage_set_point", 0)
    /\ dpc' = "done"
    /\ UNCHANGED <<sim, num_slots, num_channels, wire, recent>>

\* a KeysightPSU opened on a DummyPS as constructed
PsuInit ==
    /\ cls = "VisaResource"
    /\ ClientOpened
    /\ WaitIdle
    /\ LinkIdle
    /\ NetIdle
    /\ GenIdle
    /\ sim = "DummyPS"
    /\ num_slots = 0
    /\ num_channels = 0
    /\ state = DummyPS_state
    /\ recent = <<>>
    /\ DaqIdle

PsuNext ==
    \/ DummyPS_process_command /\ DaqOnly
    \/ set_voltage_set_point /\ DaqOnly
    \/ get_voltage_set_point /\ DaqOnly
    \/ daq_next /\ DaqOnly

PsuSpec == PsuInit /\ [][PsuNext]_vars

-----------------------------------------------------------------------------
(* The dispatch of DummyDAQ statement by statement: the thread of run inside    *)
(* process_command and set_channel                                             *)

\* mutant: a command is taken while the thread is between the two list operations
Ready_Reentrant(position) == position \in {"idle", "delete"}

\* the loop of process_packet takes the next command when process_command has
\* returned for the one before
Ready(position) == position = "idle"

\* the route list commands the thread is followed through
MoveCmds == {<<"ROUT", "CLOS">>, <<"ROUT", "OPEN">>}

\* the list a route leaves and the list it enters
Source(st, cmd) ==
    IF map_commands(cmd.cmd_tree[2]) = "CLOSE" THEN OpenItems(st) ELSE CloseItems(st)

\* process_command is entered with a route list write: route_names is computed
step_process_command ==
    /\ Ready(dpc)
    /\ sim = "DummyDAQ"
    /\ \E cmd_tree \in MoveCmds, names \in NameLists \ {<<>>} :
        /\ dcmd' = Command(cmd_tree, <<RouteParam(names)>>, FALSE)
        /\ wire' = route_names(<<RouteParam(names)>>)
    /\ dpc' = "route"
    /\ dreply' = NoneReply
    /\ UNCHANGED <<sim, num_slots, num_channels, state, fcall, fresult, recent>>

\* for route in route_names: set_channel(int(route), closed) up to `if route in
\* src_list`; int() or is_valid_route may raise, which ends the dispatch
step_set_channel ==
    /\ dpc = "route"
    /\ IF wire = <<>> THEN dpc' = "done" /\ UNCHANGED <<wire, dreply>>
       ELSE IF ~ParseInt(Head(wire)).ok \/ is_valid_route(ParseInt(Head(wire)).n).raised
       THEN dpc' = "done" /\ dreply' = RaisedReply("ValueError") /\ UNCHANGED wire
       ELSE IF /\ is_valid_route(ParseInt(Head(wire)).n).valid
               /\ InList(IntValue(ParseInt(Head(wire)).n), Source(state, dcmd))
       THEN dpc' = "append" /\ UNCHANGED <<wire, dreply>>
       ELSE wire' = Tail(wire) /\ UNCHANGED <<dpc, dreply>>
    /\ UNCHANGED <<sim, num_slots, num_channels, state, dcmd, fcall, fresult, recent>>

\* dst_list.append(route)
step_append ==
    /\ dpc = "append"
    /\ \E x \in {IntValue(ParseInt(Head(wire)).n)} :
        state' = IF map_commands(dcmd.cmd_tree[2]) = "CLOSE"
                 THEN WithRoutes(state, OpenItems(state), Append(CloseItems(state), x))
                 ELSE WithRoutes(state, Append(OpenItems(state), x), CloseItems(state))
    /\ dpc' = "delete"
    /\ UNCHANGED <<sim, num_slots, num_channels, dcmd, dreply, fcall, fresult, wire, recent>>

\* del src_list[src_list.index(route)]
step_delete ==
    /\ dpc = "delete"
    /\ \E x \in {IntValue(ParseInt(Head(wire)).n)} :
        state' = IF map_commands(dcmd.cmd_tree[2]) = "CLOSE"
                 THEN WithRoutes(state, RemoveFirst(OpenItems(state), x), CloseItems(state))
                 ELSE WithRoutes(state, OpenItems(state), RemoveFirst(CloseItems(state), x))
    /\ wire' = Tail(wire)
    /\ dpc' = "route"
    /\ UNCHANGED <<sim, num_slots, num_channels, dcmd, dreply, fcall, fresult, recent>>

\* a route list query is dispatched: it reads the list as it is
step_query ==
    /\ Ready(dpc)
    /\ sim = "DummyDAQ"
    /\ \E cmd_tree \in MoveCmds, names \in NameLists \ {<<>>} :
        /\ dcmd' = Command(cmd_tree, <<RouteParam(names)>>, TRUE)
        /\ dreply' = process_command(state, cmd_tree, <<RouteParam(names)>>, TRUE).reply
    /\ dpc' = "done"
    /\ UNCHANGED <<sim, num_slots, num_channels, state, fcall, fresult, wire, recent>>

\* process_command has returned or raised: the thread is back in the loop
step_return ==
    /\ dpc = "done"
    /\ dpc' = "idle"
    /\ dcmd' = NoCommand
    /\ dreply' = NoneReply
    /\ wire' = <<>>
    /\ UNCHANGED <<sim, num_slots, num_channels, state, fcall, fresult, recent>>

\* DummyDAQ(num_slots=1, num_channels=2) as constructed, its thread in the loop
MoveInit ==
    /\ cls = "VisaResource"
    /\ ClientOpened
    /\ WaitIdle
    /\ LinkIdle
    /\ NetIdle
    /\ GenIdle
    /\ sim = "DummyDAQ"
    /\ num_slots = 1
    /\ num_channels = 2
    /\ state = DummyDAQ_state(num_slots, num_channels)
    /\ recent = <<>>
    /\ DaqIdle

MoveNext ==
    \/ step_process_command /\ DaqOnly
    \/ step_set_channel /\ DaqOnly
    \/ step_append /\ DaqOnly
    \/ step_delete /\ DaqOnly
    \/ step_query /\ DaqOnly
    \/ step_return /\ DaqOnly

MoveSpec == MoveInit /\ [][MoveNext]_vars

-----------------------------------------------------------------------------
(* The run loop of DummyTCPInstrument: packets, commands, replies *)

write_term == "\n"

read_term == "\n"

\* list(filter(None, re.split(';|{0}'.format(self.write_term), data)))
RECURSIVE SplitCommands(_)
SplitCommands(data) ==
    LET IsSep(c) == c \in {";", write_term}
        k == CHOOSE i \in 1..(Len(data) + 1) :
                 /\ i = Len(data) + 1 \/ IsSep(data[i])
                 /\ \A j \in 1..(i - 1) : ~IsSep(data[j])
    IN  IF data = <<>> THEN <<>>
        ELSE IF k = 1 THEN SplitCommands(Tail(data))
        ELSE IF k > Len(data) THEN <<data>>
        ELSE <<SubSeq(data, 1, k - 1)>> \o SplitCommands(SubSeq(data, k + 1, Len(data)))

\* mutant: the end of a packet that does not end with the terminator is handed out
\* with the rest
extract_commands_NoCarry(prior, bin_data) ==
    LET data == SelectSeq(prior \o bin_data, LAMBDA c : c # "\r")
    IN  [cmds |-> SplitCommands(data), prior_data |-> <<>>, raised |-> data = <<>>]

\* extract_commands(bin_data) with self.prior_data = prior: the commands it returns
\* and the prior_data it leaves; data[-1] raises on empty data and cmds[-1] on an
\* empty list, both after prior_data was reset
extract_commands(prior, bin_data) ==
    LET data == SelectSeq(prior \o bin_data, LAMBDA c : c # "\r")
        cmds == SplitCommands(data)
    IN  IF data = <<>> THEN [cmds |-> <<>>, prior_data |-> <<>>, raised |-> TRUE]
        ELSE IF data[Len(data)] = write_term
        THEN [cmds |-> cmds, prior_data |-> <<>>, raised |-> FALSE]
        ELSE IF cmds = <<>> THEN [cmds |-> <<>>, prior_data |-> <<>>, raised |-> TRUE]
        ELSE [cmds |-> SubSeq(cmds, 1, Len(cmds) - 1), prior_data |-> cmds[Len(cmds)],
              raised |-> FALSE]

\* str.rstrip() of a command: the blanks at its end dropped
RECURSIVE RStrip(_)
RStrip(t) == IF t # <<>> /\ t[Len(t)] = " " THEN RStrip(SubSeq(t, 1, Len(t) - 1)) ELSE t

\* cmd_tree[-1][-1] raises IndexError: the name of the command is empty or ends
\* with a colon
NoName(line) ==
    LET cmd_tree == SplitOn(SplitOn(line, " ")[1], ":")
    IN  cmd_tree[Len(cmd_tree)] = <<>>

\* mutant: the reply goes out without the terminator
Encode_NoTerm(reply) == reply.text

\* reply += self.read_term; rdata = reply.encode()
Encode(reply) == reply.text \o <<read_term>>

\* the loop of process_packet over cmds on the state tree st of DummyPS: the
\* commands dispatched with what process_command returned or raised and what was
\* sent for each, the tree at the end, and whether the loop was left by the
\* IndexError of cmd_tree[-1][-1]
RECURSIVE ProcessCommands(_, _)
ProcessCommands(st, cmds) ==
    IF cmds = <<>> THEN [state |-> st, log |-> <<>>, raised |-> FALSE]
    ELSE LET line == Upper(RStrip(Head(cmds)))
         IN  IF NoName(line) THEN [state |-> st, log |-> <<>>, raised |-> TRUE]
             ELSE LET cmd == extract_command(line)
                      r == PS_process_command(st, cmd.cmd_tree, cmd.params, cmd.is_query)
                      sent == sendall(cmd.is_query, r).reply
                      rest == ProcessCommands(r.state, Tail(cmds))
                  IN  [state |-> rest.state,
                       log |-> <<[cmd |-> cmd, reply |-> r.reply,
                                  sent |-> IF sent.kind = "text" THEN Encode(sent)
                                           ELSE <<>>]>> \o rest.log,
                       raised |-> rest.raised]

RECURSIVE Concat(_)
Concat(texts) == IF texts = <<>> THEN <<>> ELSE Head(texts) \o Concat(Tail(texts))

\* the bytes of the streams that are tried in every order
Bytes == {"A", ";", " ", write_term}

MaxStream == 4         \* longest stream made of Bytes

\* streams of commands DummyPS knows: queries, writes, a write that raises, a
\* query without reply, a carriage return, a blank after the semicolon
CommandStreams ==
    {Chars("INST:NSEL 2;INST:NSEL?\n"),
     Chars("FOO 1;*IDN?\n*CLS?\n"),
     Chars("INST:NSEL X\r\nINST? NSELECT;*idn? \n"),
     Chars("*IDN?; *OPC?\n")}

\* what the client sends over the connection
Streams == UNION {[1..n -> Bytes] : n \in 1..MaxStream} \cup CommandStreams

\* one pass of the loop of run: conn.recv returns some of the bytes on the way,
\* process_packet extracts the commands, dispatches them one after the other and
\* sends the replies; an exception that leaves process_packet ends the loop
run ==
    /\ connected
    /\ wire # <<>>
    /\ \E k \in 1..Len(wire) :
        \E x \in {extract_commands(prior_data, SubSeq(wire, 1, k))} :
            \E p \in {ProcessCommands(state, x.cmds)} :
                /\ received' = received \o SubSeq(wire, 1, k)
                /\ wire' = SubSeq(wire, k + 1, Len(wire))
                /\ prior_data' = x.prior_data
                /\ handed' = handed \o x.cmds
                /\ state' = p.state
                /\ dispatched' = dispatched \o p.log
                /\ outbound' = outbound \o Concat([i \in 1..Len(p.log) |-> p.log[i].sent])
                /\ connected' = (~x.raised /\ ~p.raised)
    /\ UNCHANGED <<sim, num_slots, num_channels, dpc, dcmd, dreply, fcall, fresult, recent>>

\* the client closes the connection when everything it sent was received: recv
\* returns no data and the loop ends
disconnect ==
    /\ connected
    /\ wire = <<>>
    /\ connected' = FALSE
    /\ UNCHANGED <<daqVars, received, prior_data, handed, dispatched, outbound>>

\* DummyPS has accepted the connection of a client that has sent a stream
NetInit ==
    /\ cls = "VisaResource"
    /\ ClientOpened
    /\ WaitIdle
    /\ LinkIdle
    /\ GenIdle
    /\ sim = "DummyPS"
    /\ num_slots = 0
    /\ num_channels = 0
    /\ state = DummyPS_state
    /\ recent = <<>>
    /\ dpc = "idle"
    /\ dcmd = NoCommand
    /\ dreply = NoneReply
    /\ fcall = NoFacadeCall
    /\ fresult = Pending
    /\ wire \in Streams
    /\ connected = TRUE
    /\ received = <<>>
    /\ prior_data = <<>>
    /\ handed = <<>>
    /\ dispatched = <<>>
    /\ outbound = <<>>

NetNext ==
    \/ run /\ NetOnly
    \/ disconnect /\ NetOnly

NetSpec == NetInit /\ [][NetNext]_vars

-----------------------------------------------------------------------------
(* Vocabulary of the properties *)

\* the transport operations of the call, without the sleeps
TransportOps == SelectSeq(log, LAMBDA e : e.op # "sleep")

\* how many transport operations of the call are e
Sent(e) == Cardinality({i \in 1..Len(log) : log[i].op = e.op /\ log[i].cmd = e.cmd})

QuerySends == Cardinality({i \in 1..Len(log) : log[i].op = "query"})

InQuery == call.name = "query"

InWriteAsync == call.name = "write_async"

\* the register value of a reply, read bit by bit: bit 0, and bits 2..5
BitSet(v, k) == (v \div (2 ^ k)) % 2 = 1

Numeric(r) == r.ok /\ r.text # <<>> /\ \A i \in 1..Len(r.text) : r.text[i] \in Digits

ShowsError(r) == Numeric(r) /\ \E k \in 2..5 : BitSet(DecimalValue(r.text), k)

ShowsComplete(r) == Numeric(r) /\ BitSet(DecimalValue(r.text), 0)

\* a reply with neither the completion bit nor an error bit
ShowsNothing(r) == Numeric(r) /\ ~ShowsError(r) /\ ~ShowsComplete(r)

\* the attempt of a query that yields a usable value
Usable(r) == r.ok /\ Decode(call.container, r.text).ok

-----------------------------------------------------------------------------
(* C1..C3: the retry loop of query *)

\* C1: a query with max_attempts = N on an open resource never sends more than
\* N requests, and when the transport fails on every attempt it ends, raising,
\* after exactly N sends (VisaResource.query and GPIBLinkResource.query)
C1_RetryBound ==
    InQuery =>
        /\ QuerySends <= call.max_attempts
        /\ (pc = "done" /\ is_open /\ \A i \in 1..Len(replies) : ~replies[i].ok)
              => /\ QuerySends = call.max_attempts
                 /\ Len(replies) = call.max_attempts
                 /\ outcome.status = "raised"

C1_Witness ==
    /\ InQuery /\ pc = "done" /\ is_open /\ cls = "GPIBLinkResource"
    /\ call.max_attempts = 3
    /\ QuerySends = 3
    /\ \A i \in 1..Len(replies) : ~replies[i].ok
    /\ outcome.status = "raised"

\* C2: when attempts 1..k-1 of a query fail and attempt k succeeds, the call
\* returns the conversion of the k-th reply alone, raises nothing and sends
\* nothing after the k-th request
C2_RetryInvisible ==
    InQuery =>
        /\ \A i \in 1..Len(replies) :
              Usable(replies[i]) =>
                 /\ i = Len(replies)
                 /\ pc = "done"
                 /\ outcome = Returned(Decode(call.container, replies[i].text).value)
                 /\ QuerySends = i
                 /\ log[Len(log)] = QueryEntry(call.cmd, TRUE)
        /\ (pc = "done" /\ outcome.status = "returned")
              => /\ replies # <<>>
                 /\ Usable(replies[Len(replies)])
                 /\ \A i \in 1..(Len(replies) - 1) : ~Usable(replies[i])

C2_Witness ==
    /\ InQuery /\ pc = "done" /\ call.container = "int"
    /\ Len(replies) = 3
    /\ ~replies[1].ok
    /\ replies[2] = GoodReply(TxtX)
    /\ replies[3] = GoodReply(Txt12)
    /\ outcome = Returned(IntValue(12))

\* C3: a query that exhausts its max_attempts >= 1 attempts raises the
\* exception object of its last failed attempt, not the generic error and not
\* the exception of an earlier attempt
C3_LastErrorRaised ==
    (InQuery /\ pc = "done" /\ is_open /\ outcome.status = "raised"
        /\ call.max_attempts >= 1)
    => /\ Len(replies) = call.max_attempts
       /\ outcome.err = IF replies[Len(replies)].ok
                        THEN DecodeError(Len(replies))
                        ELSE TransportError(Len(replies))
       /\ outcome.err # QueryFailedError

C3_Witness ==
    /\ InQuery /\ pc = "done" /\ is_open /\ call.container = "int"
    /\ call.max_attempts = 2
    /\ ~replies[1].ok
    /\ replies[2] = GoodReply(TxtNO)
    /\ outcome = Raised(DecodeError(2))

-----------------------------------------------------------------------------
(* C4, C5: write, read, query and write_async on a closed or open resource *)

Guarded == {"write", "query", "read", "write_async"}

C4_NotOpenState ==
    (~is_open /\ call.name \in Guarded)
    => /\ log = <<>>
       /\ pc = "done" => outcome.status = "raised"
       /\ (pc = "done" /\ ~InWriteAsync)
             => IsNotOpenError(outcome.err) /\ attempts = 0
       /\ (pc = "done" /\ InWriteAsync)
             => /\ attempts = call.max_attempts
                /\ outcome.err = IF call.max_attempts >= 1
                                 THEN NotOpenError(cls)
                                 ELSE WriteAsyncFailedError

C4_NotOpenFrame ==
    (~is_open /\ call'.name \in Guarded) => UNCHANGED <<is_open, resource, leaked>>

C5_WriteOnce ==
    (call.name = "write" /\ pc = "done" /\ is_open)
    => /\ Len(log) = 2
       /\ log[1] = SleepEntry
       /\ log[2].op = "write" /\ log[2].cmd = call.cmd
       /\ Sent(WriteEntry(call.cmd, TRUE)) = 1
       /\ attempts = 0
       /\ outcome = IF log[2].ok THEN Returned(NoneValue) ELSE Raised(TransportError(2))

C5_Witness ==
    /\ call.name = "write" /\ pc = "done" /\ is_open
    /\ log = <<SleepEntry, WriteEntry(call.cmd, FALSE)>>
    /\ outcome = Raised(TransportError(2))

-----------------------------------------------------------------------------
(* C6..C10: the completion protocol of write_async *)

\* C6: in every pass of write_async the transport operations come in the
\* order write *CLS, write cmd, write *OPC, *ESR? polls: a poll is only ever
\* issued right after the *OPC write or another poll, cmd only right after
\* the *CLS write, *OPC only right after cmd; a call that returns has polled
C6_ProtocolOrder ==
    InWriteAsync =>
        LET T == TransportOps IN
        /\ \A i \in 1..Len(T) :
            /\ T[i].op \in {"write", "query"}
            /\ T[i].op = "write" => T[i].cmd \in {CLS, call.cmd, OPC}
            /\ T[i].op = "query" =>
                  /\ T[i].cmd = ESR
                  /\ i > 1
                  /\ T[i - 1] \in {WriteEntry(OPC, TRUE), QueryEntry(ESR, TRUE)}
            /\ (T[i].op = "write" /\ T[i].cmd = call.cmd) =>
                  i > 1 /\ T[i - 1] = WriteEntry(CLS, TRUE)
            /\ (T[i].op = "write" /\ T[i].cmd = OPC) =>
                  i > 1 /\ T[i - 1] = WriteEntry(call.cmd, TRUE)
            /\ (T[i].op = "write" /\ T[i].cmd = CLS) =>
                  i = 1 \/ ~T[i - 1].ok \/ T[i - 1] = QueryEntry(ESR, TRUE)
        /\ (Len(T) > 0 /\ T[Len(T)] = WriteEntry(OPC, TRUE)) => pc = "poll"
        /\ (pc = "done" /\ outcome.status = "returned")
              => Len(T) > 0 /\ T[Len(T)] = QueryEntry(ESR, TRUE)

C6_Witness ==
    /\ InWriteAsync /\ pc = "done" /\ outcome.status = "returned"
    /\ TransportOps = <<WriteEntry(CLS, TRUE), WriteEntry(AsyncCmd, TRUE),
                        WriteEntry(OPC, TRUE), QueryEntry(ESR, TRUE)>>

\* the last poll of the current pass showed an error bit
ErrorSeen == InWriteAsync /\ replies # <<>> /\ ShowsError(replies[Len(replies)])

LastEsr == DecimalValue(replies[Len(replies)].text)

CmdSends == Sent(WriteEntry(call.cmd, TRUE))

ClsSends == Sent(WriteEntry(CLS, TRUE))

PollsOfPass ==
    LET T == TransportOps
        last == CHOOSE i \in 0..Len(T) :
                   /\ i > 0 => T[i] = WriteEntry(OPC, TRUE)
                   /\ \A j \in (i + 1)..Len(T) : T[j] # WriteEntry(OPC, TRUE)
    IN  Len(T) - last

\* C9: when no reply shows an error bit and the completion bit first shows on
\* the k-th poll, write_async returns normally right after that poll, having
\* polled exactly k times; it never returns before the bit shows
C9_ReturnsOnCompletion ==
    InWriteAsync =>
        /\ (/\ replies # <<>>
            /\ \A i \in 1..Len(replies) : Numeric(replies[i]) /\ ~ShowsError(replies[i])
            /\ ShowsComplete(replies[Len(replies)]))
              => /\ pc = "done"
                 /\ outcome = Returned(NoneValue)
                 /\ PollsOfPass = Len(replies)
                 /\ \A i \in 1..(Len(replies) - 1) : ~ShowsComplete(replies[i])
        /\ pc = "poll" => \A i \in 1..Len(replies) : ShowsNothing(replies[i])
        /\ (pc = "done" /\ outcome.status = "returned")
              => replies # <<>> /\ ShowsComplete(replies[Len(replies)])

C9_Witness ==
    /\ InWriteAsync /\ pc = "done" /\ outcome = Returned(NoneValue)
    /\ replies = <<GoodReply(Txt0), GoodReply(Txt0), GoodReply(Txt1)>>
    /\ PollsOfPass = 3

\* every poll of the current pass was answered, with neither bit
NothingSeen ==
    /\ InWriteAsync
    /\ call.timeout # None
    /\ replies # <<>>
    /\ \A i \in 1..Len(replies) : ShowsNothing(replies[i])

\* C10: with a finite timeout T and poll interval d, as long as the device
\* shows neither the completion bit nor an error bit, a pass polls at most
\* T/d + 1 times, goes on polling only while the elapsed time is within T,
\* ends with the completion-timeout error at the first check where the
\* elapsed time exceeds T, and the call does not return normally
C10_TimesOut ==
    NothingSeen =>
        /\ Len(replies) <= (call.timeout \div call.delay) + 1
        /\ PollsOfPass = Len(replies)
        /\ pc \in {"poll", "cls", "done"}
        /\ pc = "poll" <=> elapsed <= call.timeout
        /\ pc # "poll" => err = CompletionTimeoutError
        /\ pc = "done" => outcome = Raised(CompletionTimeoutError)
        /\ outcome.status # "returned"

C10_Witness ==
    /\ NothingSeen /\ pc = "done"
    /\ call.timeout = 2 /\ call.delay = 1
    /\ Len(replies) = 3
    /\ elapsed = 3
    /\ outcome = Raised(CompletionTimeoutError)


-----------------------------------------------------------------------------
(* C11, C12: the completion waits *)

InWait == wpc \in {"write", "poll"}

\* C11: every blocking completion wait of the client (write_async with any
\* timeout argument, sync_commands_nonblocking, wait_for_completion,
\* AgilentVNA._writeAsyncSCPI) terminates, by returning or by raising, whatever
\* the device replies: a wait that has started is eventually over
C11_WaitsTerminate == InWait ~> (wpc = "done")

\* the last poll yielded a truthy numeric reply
TruthyPoll ==
    /\ done_str.ok
    /\ Numeric(GoodReply(Strip(done_str.text)))
    /\ DecimalValue(Strip(done_str.text)) # 0

\* C12: wait_for_completion returns normally as soon as a ROUT:DONE? poll
\* yields a truthy numeric reply, and it fails with the timeout error only
\* when no poll has yielded one
C12_ReturnsOnDone ==
    (waiter = "wait_for_completion" /\ wpc = "done") =>
        /\ TruthyPoll => wresult = Returned(NoneValue)
        /\ wresult = Raised(RouteTimeoutError) => ~TruthyPoll

-----------------------------------------------------------------------------
(* C13: close() *)

\* a write, query or read on a resource that is not open has failed with the
\* not-open error and touched no transport
C13_ClosedState ==
    (~is_open /\ pc = "done" /\ call.name \in {"write", "query", "read"}) =>
        /\ outcome.status = "raised"
        /\ IsNotOpenError(outcome.err)
        /\ TransportOps = <<>>

\* a close() that returns leaves is_open false and the transport released; on
\* a resource that holds a transport it has sent *CLS before it closed the
\* transport, on a resource that holds none it has sent nothing
C13_CloseStep ==
    (pc = "idle" /\ call'.name = "close" /\ outcome'.status = "returned") =>
        /\ ~is_open'
        /\ resource' = 0
        /\ IF resource # 0
           THEN \E i, j \in 1..Len(log') :
                    /\ i < j
                    /\ log'[i] = WriteEntry(CLS, TRUE)
                    /\ log'[j] = CloseEntry
           ELSE log' = <<>>

\* close() on a resource that holds no transport does not fail
C13_NeverOpened ==
    (pc = "idle" /\ call'.name = "close" /\ resource = 0) =>
        outcome' = Returned(NoneValue)

\* only an open() that succeeds makes the resource open again
C13_Reopen ==
    (~is_open /\ is_open') => (call'.name = "open" /\ outcome' = Returned(NoneValue))

\* C13: after close() completes, is_open is false and the transport is
\* released; every later write, query or read fails with the not-open error
\* without touching the transport until open() succeeds again; close() sends
\* *CLS before it releases the transport, and on a never-opened resource it
\* sends nothing and does not fail
C13_CloseReleases ==
    [](C13_ClosedState) /\ [][C13_CloseStep /\ C13_NeverOpened /\ C13_Reopen]_vars

\* close() has returned on a resource that was open: *CLS, the sleep and the
\* close of the transport are in its log
C13_Witness ==
    /\ call.name = "close"
    /\ pc = "done"
    /\ outcome = Returned(NoneValue)
    /\ log = <<WriteEntry(CLS, TRUE), SleepEntry, CloseEntry>>
    /\ ~is_open
    /\ resource = 0

-----------------------------------------------------------------------------
(* C14: replies and requests *)

\* C14: the reply a query call returns is always the reply to a request that this
\* same call sent, never a reply to a request of an earlier call, even when the
\* transport loses or delays replies and attempts are retried
C14_OwnReply ==
    (qpc = "done" /\ qresult.status = "returned") => qresult.reply.call = qcall.id

-----------------------------------------------------------------------------
(* C15: the kinds of failure *)

FailureKinds == {"not_open", "query_failed", "device", "timeout"}

\* the kind of the failure a call has ended with
FailureKind ==
    IF IsNotOpenError(outcome.err) THEN "not_open"
    ELSE IF InWriteAsync /\ outcome.err = CompletionTimeoutError THEN "timeout"
    ELSE IF InWriteAsync /\ outcome.err.msg = DeviceError(0).msg THEN "device"
    ELSE IF InQuery THEN "query_failed"
    ELSE "other"

\* the error types the client raises for a kind of failure
TypesOf(k) ==
    CASE k = "not_open" -> {NotOpenError(c).type : c \in {"VisaResource", "GPIBLinkResource"}}
      [] k = "query_failed" -> {QueryFailedError.type, TransportError(0).type, DecodeError(0).type}
      [] k = "device" -> {DeviceError(0).type, SyncDeviceError(0).type}
      [] k = "timeout" -> {CompletionTimeoutError.type, RouteTimeoutError.type}

\* C15: the error type tells the kinds of failure apart: a call that failed in
\* one kind (no usable reply after N tries, device-reported fault, timeout,
\* not open) raises an error whose type is raised for no other kind
C15_KindsByType ==
    (pc = "done" /\ outcome.status = "raised" /\ FailureKind \in FailureKinds) =>
        \A k \in FailureKinds \ {FailureKind} : outcome.err.type \notin TypesOf(k)

-----------------------------------------------------------------------------
(* Vocabulary of the simulated-DAQ properties *)

\* the simulator takes one command: dcmd', state' and dreply' are its command,
\* the state tree it leaves and what it returned or raised
DaqStep == dpc = "idle" /\ dpc' = "done"

\* the routes of the device: SCC with slot S and channel CC in range
ValidRoutes == {s * 100 + c : s \in 1..num_slots, c \in 1..num_channels}

RouteSpellings == {"ROUT", "ROUTE"}

CloseSpellings == {"CLOS", "CLOSE"}

OpenSpellings == {"OPEN"}

\* cmd is ROUT:<target> with a parameter list, as a write or as a query
IsRouteCommand(cmd, target, is_query) ==
    /\ cmd.is_query = is_query
    /\ Len(cmd.cmd_tree) = 2
    /\ cmd.cmd_tree[1] \in RouteSpellings
    /\ cmd.cmd_tree[2] \in target
    /\ Len(cmd.params) > 0

\* the integers the parameter list names, and whether all its names are integers
NamedRoutes(cmd) ==
    {ParseInt(route_names(cmd.params)[i]).n : i \in
        {j \in 1..Len(route_names(cmd.params)) : ParseInt(route_names(cmd.params)[j]).ok}}

AllNamesIntegers(cmd) ==
    \A i \in 1..Len(route_names(cmd.params)) : ParseInt(route_names(cmd.params)[i]).ok

Count(x, items) == Cardinality({i \in 1..Len(items) : items[i] = x})

Routes(items) == {items[i] : i \in 1..Len(items)}

\* a write naming the routes named, to the list dst (src is the other list), moved
\* route C once or left it where it was, raising nothing; it changed no list when
\* all its valid routes were in dst already
MovedOnce(C, named, src, dst, src2, dst2, reply) ==
    /\ reply.kind # "raised"
    /\ Count(IntValue(C), dst2) = 1
    /\ Count(IntValue(C), src2) = 0
    /\ (\A D \in named \cap ValidRoutes : InList(IntValue(D), dst))
        => (src2 = src /\ dst2 = dst)

\* C16: a ROUT:CLOS write naming a valid route C moves C from OPEN to CLOSE exactly
\* once; when C is already in CLOSE it stays there once and nothing is raised, and a
\* write all of whose routes are already closed leaves both lists unchanged.  The same
\* with the lists exchanged for ROUT:OPEN.  A route named several times is moved once.
C16_MoveOnce ==
    [][DaqStep => \A C \in ValidRoutes :
        /\ (IsRouteCommand(dcmd', CloseSpellings, FALSE) /\ C \in NamedRoutes(dcmd'))
            => MovedOnce(C, NamedRoutes(dcmd'), OpenItems(state), CloseItems(state),
                         OpenItems(state'), CloseItems(state'), dreply')
        /\ (IsRouteCommand(dcmd', OpenSpellings, FALSE) /\ C \in NamedRoutes(dcmd'))
            => MovedOnce(C, NamedRoutes(dcmd'), CloseItems(state), OpenItems(state),
                         CloseItems(state'), OpenItems(state'), dreply')]_vars

\* the spellings that the abbreviation table maps to one canonical name
Synonyms ==
    {{"ROUT", "ROUTE"}, {"CLOS", "CLOSE"}, {"MEAS", "MEASURE"}, {"TEMP", "TEMPERATURE"},
     {"RH", "RHUMIDITY"}, {"OPEN"}}

SpellingsOf(seg) ==
    IF \E c \in Synonyms : seg \in c THEN UNION {c \in Synonyms : seg \in c} ELSE {seg}

\* the command with segment i spelled alt
Respelled(cmd, i, alt) == [cmd EXCEPT !.cmd_tree[i] = alt]

\* C17: whatever command the dispatcher takes, the same command with any one segment
\* in another spelling of the same canonical name gives the same reply and the same
\* state tree, and a segment that is in no table entry is looked up as it is written.
C17_SpellingsAgree ==
    [][DaqStep => \A i \in 1..Len(dcmd'.cmd_tree) :
        /\ \A alt \in SpellingsOf(dcmd'.cmd_tree[i]) :
            process_command(state, Respelled(dcmd', i, alt).cmd_tree, dcmd'.params,
                            dcmd'.is_query)
                = [state |-> state', reply |-> dreply']
        /\ (~\E c \in Synonyms : dcmd'.cmd_tree[i] \in c)
            => map_commands(dcmd'.cmd_tree[i]) = dcmd'.cmd_tree[i]]_vars

\* a ROUT:CLOS write in the short spelling was served and closed a route
C17_Witness ==
    /\ dpc = "done"
    /\ dcmd.cmd_tree = <<"ROUT", "CLOS">>
    /\ ~dcmd.is_query
    /\ dreply = NoneReply
    /\ CloseItems(state) # <<>>

\* C18: a ROUT:CLOS or ROUT:OPEN write whose names are integers raises nothing, moves
\* the valid routes it names, and leaves the routes that fail the range check in
\* neither list: the lists hold the same routes as before, the valid named ones in
\* the list that was written.
C18_InvalidIgnored ==
    [][DaqStep =>
        /\ (IsRouteCommand(dcmd', CloseSpellings, FALSE) /\ AllNamesIntegers(dcmd'))
            => /\ dreply'.kind # "raised"
               /\ Routes(CloseItems(state')) = Routes(CloseItems(state))
                    \cup {IntValue(C) : C \in NamedRoutes(dcmd') \cap ValidRoutes}
               /\ Routes(OpenItems(state')) = Routes(OpenItems(state))
                    \ {IntValue(C) : C \in NamedRoutes(dcmd') \cap ValidRoutes}
        /\ (IsRouteCommand(dcmd', OpenSpellings, FALSE) /\ AllNamesIntegers(dcmd'))
            => /\ dreply'.kind # "raised"
               /\ Routes(OpenItems(state')) = Routes(OpenItems(state))
                    \cup {IntValue(C) : C \in NamedRoutes(dcmd') \cap ValidRoutes}
               /\ Routes(CloseItems(state')) = Routes(CloseItems(state))
                    \ {IntValue(C) : C \in NamedRoutes(dcmd') \cap ValidRoutes}]_vars

\* the answers of the simulator, as it stands, to ROUT:OPEN? and ROUT:CLOS? for ch
RouteAnswers(ch) ==
    <<Serve(sim, state, RouteLine("ROUT:OPEN?", ch)).reply,
      Serve(sim, state, RouteLine("ROUT:CLOS?", ch)).reply>>

FlagsOwed(cmd, items) ==
    TextReply(Join([i \in 1..Len(route_names(cmd.params)) |->
        IF InList(IntValue(ParseInt(route_names(cmd.params)[i]).n), items)
        THEN <<"1">> ELSE <<"0">>]))

\* C20: a ROUT:OPEN? or ROUT:CLOS? query naming the routes r1..rn is answered with n
\* flags joined by commas, the i-th "1" exactly when ri is in the list asked about,
\* for one name and for several.
C20_FlagPerRoute ==
    [][DaqStep =>
        /\ (IsRouteCommand(dcmd', OpenSpellings, TRUE) /\ AllNamesIntegers(dcmd'))
            => dreply' = FlagsOwed(dcmd', OpenItems(state))
        /\ (IsRouteCommand(dcmd', CloseSpellings, TRUE) /\ AllNamesIntegers(dcmd'))
            => dreply' = FlagsOwed(dcmd', CloseItems(state))]_vars

-----------------------------------------------------------------------------
(* C26, C27: the outcome of a completion wait *)

InEsrWait == waiter \in {"write_async", "sync_commands_nonblocking"}

\* the wait has one outcome exactly when it is over; a normal return follows a
\* last *ESR? value with bit 0 and none of the bits 2..5, and a last value with
\* one of the bits 2..5 ends in an exception
C26_Outcome ==
    InEsrWait =>
        /\ wpc = "done" <=> wresult.status \in {"returned", "raised"}
        /\ wpc # "done" => wresult = Pending
        /\ (wpc = "done" /\ wresult.status = "returned") =>
              /\ wresult = Returned(NoneValue)
              /\ ShowsComplete(done_str)
              /\ ~ShowsError(done_str)
        /\ (wpc = "done" /\ ShowsError(done_str)) =>
              /\ wresult.status = "raised"
              /\ waiter = "sync_commands_nonblocking" =>
                    wresult.err = SyncDeviceError(DecimalValue(done_str.text))

\* the outcome of a wait that is over stays as it is until the caller takes it
C26_OutcomeKept ==
    (InEsrWait /\ wpc = "done") => (wresult' = wresult \/ waiter' = "none")

\* C26: the completion protocol of write_async and sync_commands_nonblocking
\* ends in exactly one outcome, a normal return or an exception; it returns
\* normally only when the last *ESR? value polled had bit 0 set and no bit of
\* the mask 0x3C, and a value with both a completion bit and an error bit
\* (0x05) ends in the error, never in completion
C26_OneTerminalOutcome == [](C26_Outcome) /\ [][C26_OutcomeKept]_vars

\* write_async has polled 0x05 on its only pass and raised the device error
C26_Witness ==
    /\ waiter = "write_async"
    /\ wpc = "done"
    /\ wargs.max_attempts = 1
    /\ done_str = GoodReply(Txt5)
    /\ wresult = Raised(DeviceError(5))

InDoneWait == waiter = "wait_for_completion"

\* no ROUT:DONE? poll of the wait has set done: every reply so far was "0" or
\* not numeric
NeverDone == InDoneWait /\ complete = 0

\* C27 as stated: against a device that never reports done the wait makes at
\* most ceil(timeout / 15 ms) polls
C27_WithinTimeout == NeverDone => wait_time <= wargs.timeout

\* against a device that never reports done the wait goes on only while it has
\* made at most ceil(timeout / 15 ms) polls, ends after at least one and at most
\* one more than that many, with the timeout error when the device answered
\* every poll, and does not return normally
C27_Bounded ==
    NeverDone =>
        /\ wait_time <= wargs.timeout + 1
        /\ wpc = "poll" => wait_time <= wargs.timeout /\ wresult = Pending
        /\ (wpc = "done" /\ done_str.ok) =>
              /\ wresult = Raised(RouteTimeoutError)
              /\ wait_time >= 1
              /\ wait_time >= wargs.timeout
        /\ wresult.status # "returned"

\* C27 amended: wait_for_completion(timeout) against a device that never
\* reports done raises the timeout error after at least one poll and at most
\* ceil(timeout / 15 ms) + 1 polls; it never returns normally in that case, and
\* the wait, whatever the device replies, is eventually over
C27_TimesOut == [](C27_Bounded) /\ ((InDoneWait /\ wpc = "poll") ~> (wpc = "done"))

\* the device answered "0" and then text that is not numeric, and the wait of
\* two polls has ended with the timeout error
C27_Witness ==
    /\ NeverDone
    /\ wpc = "done"
    /\ wargs.timeout = 2
    /\ wait_time = 2
    /\ done_str = GoodReply(TxtX)
    /\ wresult = Raised(RouteTimeoutError)

-----------------------------------------------------------------------------
(* C28, C29: close() and open() and the transport held *)

\* C28: close() is best-effort about the clear command: when it ends, also by
\* a failing *CLS write, the transport is released and the resource is closed
\* (is_open false, no transport handle held)
C28_CloseAlwaysReleases ==
    (pc = "done" /\ call.name = "close") => (~is_open /\ resource = 0)

\* C29: open() on a resource that is already open fails fast and does not
\* replace the transport it holds: over any sequence of open and close calls no
\* transport that is still open is dropped without being closed
C29_NoLeakedTransport ==
    /\ [](leaked = 0)
    /\ [][(pc = "idle" /\ resource # 0 /\ call'.name = "open")
            => (outcome'.status = "raised" /\ resource' = resource)]_vars

-----------------------------------------------------------------------------
(* C30: replies that cannot be converted *)

\* the text is an int literal: blanks around it, an optional sign, digits
IntLiteral(t) ==
    LET u == Strip(t)
        body == IF u # <<>> /\ u[1] \in {"+", "-"} THEN Tail(u) ELSE u
    IN  body # <<>> /\ \A i \in 1..Len(body) : body[i] \in Digits

\* a reply that arrived and is no literal of the numeric container asked for
Malformed(r) == r.ok /\ call.container = "int" /\ ~IntLiteral(r.text)

\* C30: in VisaResource.query a reply that cannot be converted to the numeric
\* container asked for counts as a failed attempt exactly like a transport
\* error: it uses up one attempt, the request is sent again while attempts are
\* left, and the call raises once max_attempts are used up; no value is
\* returned for such a reply, neither a default nor a part of it
C30_MalformedRetried ==
    (InQuery /\ cls = "VisaResource") =>
        /\ \A i \in 1..Len(replies) :
              (Malformed(replies[i]) \/ ~replies[i].ok) =>
                 /\ attempts >= i
                 /\ i < Len(replies) \/ attempts = i
                 /\ i < Len(replies) \/ pc = (IF i < call.max_attempts THEN "query" ELSE "done")
                 /\ i < Len(replies) \/ outcome.status # "returned"
                 /\ (i < Len(replies) /\ replies[i].ok)
                       => log[i + 1] = QueryEntry(call.cmd, replies[i + 1].ok)
        /\ Len(replies) <= call.max_attempts
        /\ (pc = "done" /\ replies # <<>> /\ Malformed(replies[Len(replies)]))
              => outcome = Raised(DecodeError(Len(replies)))
        /\ (pc = "done" /\ outcome.status = "returned" /\ call.container = "int")
              => /\ IntLiteral(replies[Len(replies)].text)
                 /\ outcome.value = IntValue(ParseInt(replies[Len(replies)].text).n)

\* query with container int: "NO" on the first attempt, "12" on the second
C30_Witness ==
    /\ InQuery /\ cls = "VisaResource" /\ pc = "done"
    /\ call.container = "int"
    /\ replies = <<GoodReply(TxtNO), GoodReply(Txt12)>>
    /\ QuerySends = 2
    /\ outcome = Returned(IntValue(12))

-----------------------------------------------------------------------------
(* C21..C25: the dispatchers of the three simulators *)

\* C21: dispatching a query never changes the state tree of the simulator: for
\* DummyDAQ, DummyPS and DummyVNA the tree after process_command(path, params,
\* is_query = True) is the tree before it, whatever the path and the parameters
\* and whether the call returns or raises
C21_QueryReadsOnly == [][(DaqStep /\ dcmd'.is_query) => state' = state]_vars

\* VOLT? MAX on the power supply whose set point was written before
C21_Witness ==
    /\ sim = "DummyPS"
    /\ dpc = "done"
    /\ dcmd = Command(<<"VOLT">>, <<Chars("MAX")>>, TRUE)
    /\ dreply = TextReply(Chars("24"))
    /\ state # DummyPS_state

\* the canonical segments of a path, by the table of the simulator
Canonical(s, cmd_tree) ==
    [i \in 1..Len(cmd_tree) |->
        CASE s = "DummyPS" -> DummyPS_map_commands(cmd_tree[i])
          [] s = "DummyVNA" -> DummyVNA_map_commands(cmd_tree[i])
          [] OTHER -> map_commands(cmd_tree[i])]

\* the node at which matching keys one mapping after the other comes to a stop
RECURSIVE Descend(_, _)
Descend(node, keys) ==
    IF keys # <<>> /\ node.kind = "dict" /\ Head(keys) \in DOMAIN node.children \ IntKeys
    THEN Descend(node.children[Head(keys)], Tail(keys))
    ELSE node

\* the tree a path is matched against: the whole state tree, or for the MEASURE
\* and OUTPUT paths of the power supply the tree of the selected output
TreeOf(s, st, cmd_tree) ==
    IF /\ s = "DummyPS"
       /\ Canonical(s, cmd_tree)[1] \in {"MEASURE", "OUTPUT"}
       /\ OutputKey(st) \in DOMAIN st.children
    THEN st.children[OutputKey(st)]
    ELSE st

\* the node a command resolves to
Resolved(s, st, cmd) == Descend(TreeOf(s, st, cmd.cmd_tree), Canonical(s, cmd.cmd_tree))

Sentinel == TextReply(Chars("-100"))

\* C22: a query whose path does not resolve (first segment unknown, or the walk
\* ends on a mapping node, or on a list without parameters) is answered "-100":
\* the dispatcher neither raises nor returns another value
C22_SentinelReply ==
    [][(/\ DaqStep
        /\ dcmd'.is_query
        /\ \/ Resolved(sim, state, dcmd').kind = "dict"
           \/ Resolved(sim, state, dcmd').kind = "list" /\ dcmd'.params = <<>>)
            => dreply' = Sentinel]_vars

\* C23: a write whose path does not resolve or ends on a mapping node makes
\* process_command raise the unknown-command error and leaves the state tree
\* as it was, in DummyDAQ, DummyPS and DummyVNA
C23_UnknownWriteRaises ==
    [][(DaqStep /\ ~dcmd'.is_query /\ Resolved(sim, state, dcmd').kind = "dict")
            => (dreply' = RaisedReply("Unknown command") /\ state' = state)]_vars

\* how many segments of a path are matched before the descent comes to a stop
RECURSIVE Matched(_, _)
Matched(node, keys) ==
    IF keys # <<>> /\ node.kind = "dict" /\ Head(keys) \in DOMAIN node.children \ IntKeys
    THEN 1 + Matched(node.children[Head(keys)], Tail(keys))
    ELSE 0

\* the keys from the root of the state tree to the node a command resolves to
ResolvedPath(s, st, cmd) ==
    (IF TreeOf(s, st, cmd.cmd_tree) = st THEN <<>> ELSE <<OutputKey(st)>>)
    \o SubSeq(Canonical(s, cmd.cmd_tree), 1,
              Matched(TreeOf(s, st, cmd.cmd_tree), Canonical(s, cmd.cmd_tree)))

\* the command names a scalar leaf: every segment is matched and the node is a
\* str, an int or None
NamesLeaf(s, st, cmd) ==
    /\ Matched(TreeOf(s, st, cmd.cmd_tree), Canonical(s, cmd.cmd_tree)) = Len(cmd.cmd_tree)
    /\ Resolved(s, st, cmd).kind \in {"str", "int", "none"}

\* p coerced to the type of the leaf: int(p) for an int, p itself for a str and
\* for None
Coerced(leaf, p) == IF leaf.kind = "int" THEN IntLeaf(ParseInt(p).n) ELSE Leaf(Str(p))

\* C24: a write with parameter p to a scalar leaf of the state tree of DummyPS or
\* DummyVNA, a None leaf included, stores p coerced to the type of the leaf (p's
\* own type when the leaf was None) and changes no other node, and a query of
\* the path of a str or int leaf replies with the string form of the value stored
C24_LeafRoundTrip ==
    [][(DaqStep /\ sim \in {"DummyPS", "DummyVNA"} /\ NamesLeaf(sim, state, dcmd')) =>
        /\ (/\ ~dcmd'.is_query
            /\ dcmd'.params # <<>>
            /\ Resolved(sim, state, dcmd').kind = "int" => ParseInt(dcmd'.params[1]).ok)
              => /\ dreply' = NoneReply
                 /\ state' = SetAt(state, ResolvedPath(sim, state, dcmd'),
                                   Coerced(Resolved(sim, state, dcmd'), dcmd'.params[1]))
        /\ (dcmd'.is_query /\ Resolved(sim, state, dcmd').kind # "none")
              => dreply' = TextReply(Chars(Resolved(sim, state, dcmd').text))]_vars

-----------------------------------------------------------------------------
(* C25: the voltage set point of the simulated power supply *)

\* cmd is VOLT <v> sent as a write
IsVoltWrite(cmd) ==
    /\ Len(cmd.cmd_tree) = 1
    /\ DummyPS_map_commands(cmd.cmd_tree[1]) = "VOLTAGE"
    /\ ~cmd.is_query
    /\ Len(cmd.params) > 0

\* INSTRUMENT.NSELECT names one of the outputs of the tree st
OutputSelected(st) == OutputKey(st) \in DOMAIN st.children

\* the tree st with the set point and the measured DC voltage of its selected output
\* at the text v, every other node as it is
WithSetPoint(st, v) ==
    [st EXCEPT !.children[OutputKey(st)] =
        [@ EXCEPT !.children["VOLTAGE"] = [@ EXCEPT !.children["SET"] = Leaf(Str(v))],
                  !.children["MEASURE"] =
                      [@ EXCEPT !.children["VOLTAGE"] =
                          [@ EXCEPT !.children["DC"] = Leaf(Str(v))]]]]

\* what DummyPS replies to VOLT? in the tree st
VoltQuery(st) == PS_process_command(st, <<"VOLT">>, <<>>, TRUE).reply

\* the floats with p decimals that are nearest to x
Nearest(x, p) ==
    LET places == IF x.e > p THEN x.e ELSE p
        scaled == x.n * Pow10(places - x.e)
        unit == Pow10(places - p)
        Distance(q) == IF scaled >= q * unit THEN scaled - q * unit ELSE q * unit - scaled
        candidates == {scaled \div unit, scaled \div unit + 1}
    IN  {Float(q, p) : q \in {c \in candidates :
                                 \A d \in candidates : Distance(c) <= Distance(d)}}

\* a step in which the facade method name is called
PsuCalls(name) == dpc = "idle" /\ fcall'.name = name

\* C25 as stated: a VOLT <v> write sets the set point and the measured DC voltage of
\* the selected output to v and leaves every other node unchanged, a following VOLT?
\* returns v, and get_voltage_set_point() after set_voltage_set_point(x) returns x
C25_SetThenGetReturnsX ==
    [][/\ (DaqStep /\ IsVoltWrite(dcmd')) =>
            /\ OutputSelected(state)
            /\ state' = WithSetPoint(state, dcmd'.params[1])
            /\ VoltQuery(state') = TextReply(dcmd'.params[1])
       /\ (PsuCalls("get_voltage_set_point") /\ recent # <<>>) =>
            fresult' = Returned(recent[1].voltage)]_vars

\* C25, amended: when INSTRUMENT.NSELECT names an output, a VOLT <v> write sets the
\* set point and the measured DC voltage of that output to the text v and changes
\* nothing else, and a following VOLT? returns v; when it names none, the write
\* changes nothing.  get_voltage_set_point() right after
\* set_voltage_set_point(x, precision) returns x rounded to precision decimals when
\* an output is selected, and raises when none is.
C25_SetThenGetReturnsRounded ==
    [][/\ (DaqStep /\ IsVoltWrite(dcmd')) =>
            IF OutputSelected(state)
            THEN /\ state' = WithSetPoint(state, dcmd'.params[1])
                 /\ VoltQuery(state') = TextReply(dcmd'.params[1])
            ELSE state' = state
       /\ (PsuCalls("get_voltage_set_point") /\ recent # <<>>) =>
            IF OutputSelected(state)
            THEN /\ fresult'.status = "returned"
                 /\ fresult'.value \in Nearest(recent[1].voltage, recent[1].precision)
            ELSE fresult'.status = "raised"]_vars

\* get_voltage_set_point() has returned 5.13 right after set_voltage_set_point(5.127)
\* on output 2, and output 1 is as constructed
C25_Witness ==
    /\ dpc = "done"
    /\ fcall.name = "get_voltage_set_point"
    /\ recent = <<[voltage |-> Float(5127, 3), precision |-> 2]>>
    /\ fresult = Returned(Float(513, 2))
    /\ OutputKey(state) = "#2"
    /\ state.children["#2"].children["MEASURE"].children["VOLTAGE"].children["DC"]
           = Leaf("5.13")
    /\ state.children["#1"] = DummyPS_state.children["#1"]

-----------------------------------------------------------------------------
(* C31: segments after a handler or a leaf *)

\* the path of the command goes on after the handler or scalar leaf it has reached
HasTrailing(s, st, cmd) ==
    /\ cmd.cmd_tree # <<>>
    /\ Matched(TreeOf(s, st, cmd.cmd_tree), Canonical(s, cmd.cmd_tree)) \in
           1..(Len(cmd.cmd_tree) - 1)
    /\ Resolved(s, st, cmd).kind \in {"callable", "str", "int", "none"}

\* C31: a command whose path has further segments after a handler or a scalar leaf
\* is classified on that handler or leaf: the walk does not raise, and a query of a
\* str or int leaf is answered with the value of the leaf
C31_TrailingSegments ==
    [][(DaqStep /\ HasTrailing(sim, state, dcmd')) =>
        /\ dreply' # RaisedReply("TypeError")
        /\ (dcmd'.is_query /\ Resolved(sim, state, dcmd').kind \in {"str", "int"})
              => dreply' = TextReply(Chars(Resolved(sim, state, dcmd').text))]_vars

-----------------------------------------------------------------------------
(* C32: dispatch as a function of state tree and command *)

\* what the dispatcher of the simulator s does with cmd on the tree st when the
\* random generator yields rnd
Dispatch(s, st, cmd, rnd) ==
    CASE s = "DummyPS" -> PS_process_command(st, cmd.cmd_tree, cmd.params, cmd.is_query)
      [] s = "DummyVNA" ->
             VNA_process_command(st, cmd.cmd_tree, cmd.params, cmd.is_query, rnd)
      [] OTHER -> process_command(st, cmd.cmd_tree, cmd.params, cmd.is_query)

\* the command is a query that ends on one of the handlers of DummyVNA that draw
\* from np.random
DrawsRandom(s, st, cmd) ==
    /\ s = "DummyVNA"
    /\ cmd.is_query
    /\ Resolved(s, st, cmd).kind = "callable"
    /\ Resolved(s, st, cmd).fn \in {"_get_data", "get_ecal_description"}

-----------------------------------------------------------------------------
(* C35: the route lists of the simulated DAQ *)

\* the routes of the two lists, as integers
ListedRoutes(items) == {items[i].n : i \in 1..Len(items)}

NoDuplicates(items) == \A i, j \in 1..Len(items) : items[i] = items[j] => i = j

\* the route lists are disjoint, have no duplicates and hold integers only
ListsPartition ==
    /\ ListedRoutes(OpenItems(state)) \cap ListedRoutes(CloseItems(state)) = {}
    /\ NoDuplicates(OpenItems(state))
    /\ NoDuplicates(CloseItems(state))
    /\ \A i \in 1..Len(OpenItems(state)) : OpenItems(state)[i].tag = "int"
    /\ \A i \in 1..Len(CloseItems(state)) : CloseItems(state)[i].tag = "int"

AllListed == ListedRoutes(OpenItems(state)) \cup ListedRoutes(CloseItems(state))

\* C35: in every state of the simulated DAQ the OPEN and CLOSE lists are disjoint
\* and without duplicates, and their union is exactly the set of the valid routes
\* of the device: every slot and channel in range has its route in a list, and
\* every route in a list is one is_valid_route accepts
C35_ListsAreValidRoutes ==
    /\ ListsPartition
    /\ AllListed = ValidRoutes
    /\ \A r \in AllListed : is_valid_route(r).valid

\* C35, amended: the lists are disjoint and without duplicates and their union is
\* the set of routes the device was constructed with; these are the routes
\* is_valid_route accepts when the device has at most 9 slots and 99 channels
C35_ListsArePartition ==
    /\ ListsPartition
    /\ AllListed = ValidRoutes
    /\ (num_slots <= 9 /\ num_channels <= 99) => \A r \in AllListed : is_valid_route(r).valid

\* routes have been moved both ways: 201 is closed after 101 was closed and opened
\* again, which put it at the end of the OPEN list
C35_Witness ==
    /\ dpc = "done"
    /\ num_slots = 2
    /\ CloseItems(state) = <<IntValue(201)>>
    /\ OpenItems(state) = <<IntValue(102), IntValue(202), IntValue(101)>>

-----------------------------------------------------------------------------
(* C36, C37, C38: the run loop of the simulator *)

\* a pass of the run loop
RunStep == received' # received

\* C36: however the stream is cut into packets, extract_commands never raises, and
\* when what was received ends with the write terminator the commands handed out
\* are, in order and each once, the non-empty pieces of the whole stream between
\* semicolons and terminators
C36_FramingIndependent ==
    /\ []((received # <<>> /\ received[Len(received)] = write_term) =>
              handed = SplitCommands(SelectSeq(received, LAMBDA c : c # "\r")))
    /\ [][RunStep =>
            ~extract_commands(prior_data, SubSeq(wire, 1, Len(wire) - Len(wire'))).raised]_vars

\* the text process_packet dispatches for a command handed out
Normal(cmd) == Upper(RStrip(cmd))

\* C37: once the dispatch of a command has raised, no reply was sent for it, the
\* connection is still up until the client closes it, and every command handed out
\* so far, in this packet and in later ones, has been dispatched, in order
C37_RaiseIsolated ==
    (\E i \in 1..Len(dispatched) : dispatched[i].reply.kind = "raised") =>
        /\ \A i \in 1..Len(dispatched) :
               dispatched[i].reply.kind = "raised" => dispatched[i].sent = <<>>
        /\ connected \/ wire = <<>>
        /\ Len(dispatched) = Len(handed)
        /\ \A i \in 1..Len(dispatched) :
               dispatched[i].cmd = extract_command(Normal(handed[i]))

\* C38: the bytes sent are, in the order of the commands dispatched, one line for
\* every query whose dispatch returned a text, the text followed by the read
\* terminator, and nothing for a write, a query without reply or a raise
C38_RepliesOnlyToQueries ==
    outbound = Concat([i \in 1..Len(dispatched) |->
                          IF dispatched[i].cmd.is_query /\ dispatched[i].reply.kind = "text"
                          THEN dispatched[i].reply.text \o <<read_term>>
                          ELSE <<>>])

\* a write and a query of what it stored, a raised write, two queries answered in
\* order
C38_Witness ==
    /\ received = Chars("INST:NSEL X\r\nINST? NSELECT;*idn? \n")
    /\ Len(dispatched) = 3
    /\ dispatched[1].reply.kind = "raised"
    /\ ~dispatched[1].cmd.is_query
    /\ dispatched[2].cmd.is_query
    /\ outbound = Chars("PS\n")

-----------------------------------------------------------------------------
(* C33: one dispatch at a time *)

\* a command is taken for dispatch
DispatchStarts == dcmd' # dcmd /\ dcmd' # NoCommand

\* every valid route is in exactly one of the two lists, once
RoutesSettled == ListsPartition /\ AllListed = ValidRoutes

-----------------------------------------------------------------------------
(* The e-cal steps of KeysightVNA and AgilentVNA as a generator.  One action *)
(* is one call of the consumer: the generator runs from where it is         *)
(* suspended to its next yield.  What the instrument answers to a query is  *)
(* the instrument's choice.                                                 *)

\* a command the VNA has been sent; arg is the 1-based step number the
\* command names, or the reply of the step count query
Line(cmd, arg) == [cmd |-> cmd, arg |-> arg]

\* step counts the instrument may report
StepCounts == {0, 1, 2}

\* polls of *ESR? one acquisition may take until bit 0 is set
EsrPolls == {1, 2}

\* query('SENSE1:CORR:COLL:GUID:STEPS?', container=int) answered n
get_number_ecal_steps(n) == <<Line("STEPS?", n)>>

\* query('SENSE1:CORR:COLL:GUID:DESC? {step + 1}')
get_ecal_step_info(step) == <<Line("DESC?", step + 1)>>

\* the polls of one completion wait
RECURSIVE Esr(_)
Esr(polls) == IF polls = 0 THEN <<>> ELSE <<Line("*ESR?", 0)>> \o Esr(polls - 1)

\* write_async(f'...ACQ STAN{step + 1},ASYN') with max_attempts = 1, and the
\* *CLS / ACQ / *OPC / *ESR? lines of performECalStep
Acquire(step, polls) ==
    <<Line("*CLS", 0), Line("ACQ", step + 1), Line("*OPC", 0)>> \o Esr(polls)

\* perform_ecal_step that acquires whatever the instrument reports
perform_ecal_step_NoGuard(c, step, save, n1, polls, ok, n2) ==
    IF c = "KeysightVNA" /\ ~ok
    THEN [traffic |-> get_number_ecal_steps(n1) \o Acquire(step, polls),
          raised |-> TRUE]
    ELSE [traffic |-> get_number_ecal_steps(n1) \o Acquire(step, polls)
                      \o get_number_ecal_steps(n2)
                      \o (IF step = n2 - 1 /\ save
                          THEN <<Line("SAVE", 0)>> ELSE <<>>),
          raised |-> FALSE]

\* perform_ecal_step(step, save) of class c: n1 and n2 are the replies of its
\* two step count queries, polls the *ESR? polls of the acquisition, ok
\* whether write_async returned (performECalStep checks no error bit and has
\* no timeout).  The lines sent, and whether the call raised.
perform_ecal_step(c, step, save, n1, polls, ok, n2) ==
    IF step >= n1
    THEN [traffic |-> get_number_ecal_steps(n1), raised |-> FALSE]
    ELSE IF c = "KeysightVNA" /\ ~ok
    THEN [traffic |-> get_number_ecal_steps(n1) \o Acquire(step, polls),
          raised |-> TRUE]
    ELSE [traffic |-> get_number_ecal_steps(n1) \o Acquire(step, polls)
                      \o get_number_ecal_steps(n2)
                      \o (IF step = n2 - 1 /\ save
                          THEN <<Line("SAVE", 0)>> ELSE <<>>),
          raised |-> FALSE]

\* the head of `while i < num_steps`: the description is fetched and
\* yielded, or the generator returns
LoopHead(frame, sent) ==
    IF frame.i < frame.num_steps
    THEN /\ gpc' = "suspended"
         /\ traffic' = sent \o get_ecal_step_info(frame.i)
         /\ yielded' = Append(yielded, frame.i + 1)
         /\ locals' = frame
    ELSE /\ gpc' = "finished"
         /\ traffic' = sent
         /\ yielded' = yielded
         /\ locals' = frame

\* vna.perform_ecal_steps(save): the generator object is created, its body
\* has not started
perform_ecal_steps ==
    /\ gpc = "none"
    /\ \E save \in BOOLEAN :
         locals' = [save |-> save, num_steps |-> 0, i |-> 0]
    /\ gpc' = "created"
    /\ UNCHANGED <<yielded, traffic>>

\* next(generator), first call: the body runs to the first yield
next_created ==
    /\ gpc = "created"
    /\ \E n \in StepCounts :
         LoopHead([locals EXCEPT !.num_steps = n, !.i = 0],
                  traffic \o get_number_ecal_steps(n))

\* next(generator) at a yield: the step is performed, i is incremented and
\* the body runs to the next yield
next_suspended ==
    /\ gpc = "suspended"
    /\ \E n1 \in StepCounts, polls \in EsrPolls, ok \in BOOLEAN, n2 \in StepCounts :
         \E p \in {perform_ecal_step(cls, locals.i, locals.save, n1, polls, ok, n2)} :
           IF p.raised
           THEN /\ gpc' = "raised"
                /\ traffic' = traffic \o p.traffic
                /\ UNCHANGED <<locals, yielded>>
           ELSE LoopHead([locals EXCEPT !.i = locals.i + 1],
                         traffic \o p.traffic)

\* the consumer stops iterating: the generator is dropped where it is
generator_close ==
    /\ gpc \in {"created", "suspended"}
    /\ gpc' = "closed"
    /\ UNCHANGED <<locals, yielded, traffic>>

EcalInit ==
    /\ cls \in {"KeysightVNA", "AgilentVNA"}
    /\ is_open = TRUE
    /\ resource = 1
    /\ leaked = 0
    /\ pc = "idle"
    /\ call = NoCall
    /\ attempts = 0
    /\ err = NoError
    /\ elapsed = 0
    /\ log = <<>>
    /\ replies = <<>>
    /\ outcome = Pending
    /\ WaitIdle
    /\ LinkIdle
    /\ NetIdle
    /\ GenIdle
    /\ DaqOff

EcalNext ==
    \/ perform_ecal_steps /\ GenOnly
    \/ next_created /\ GenOnly
    \/ next_suspended /\ GenOnly
    \/ generator_close /\ GenOnly

EcalSpec == EcalInit /\ [][EcalNext]_vars

-----------------------------------------------------------------------------
(* C34: the e-cal generator *)

IsAcquire(l) == l.cmd = "ACQ"

\* the steps whose acquire command has been sent, in order, 1-based
Acquired == [p \in 1..Len(SelectSeq(traffic, IsAcquire)) |->
               SelectSeq(traffic, IsAcquire)[p].arg]

\* <<1, ..., n>>
UpTo(n) == [p \in 1..n |-> p]

\* the body has started: the first line sent is the step count query whose
\* reply is num_steps
CountFetchedFirst ==
    traffic # <<>> =>
        traffic[1] = Line("STEPS?", locals.num_steps)

\* the descriptions of steps 0, 1, ... are yielded in increasing order, none
\* beyond num_steps
YieldsInOrder ==
    /\ yielded = UpTo(Len(yielded))
    /\ Len(yielded) <= locals.num_steps

\* an acquire command is sent only after the description of its step was
\* fetched and yielded
DescriptionBeforeAcquire ==
    \A p \in 1..Len(traffic) :
        IsAcquire(traffic[p]) =>
            /\ traffic[p].arg \in {yielded[y] : y \in 1..Len(yielded)}
            /\ \E q \in 1..(p - 1) : traffic[q] = Line("DESC?", traffic[p].arg)

\* the generator is at a yield, or was dropped there by its consumer
Stopped == gpc \in {"suspended", "closed"} /\ yielded # <<>>

\* every step count the instrument has reported is num_steps
StableCount ==
    \A p \in 1..Len(traffic) :
        traffic[p].cmd = "STEPS?" => traffic[p].arg = locals.num_steps

\* C34 as stated: the count is fetched first, the descriptions are yielded in
\* increasing order, each before the acquire of its step; after k yields
\* exactly the steps 0..k-2 have been acquired, and after a full traversal
\* every step 0..N-1 exactly once
C34_StepAfterEachYield ==
    /\ CountFetchedFirst
    /\ YieldsInOrder
    /\ DescriptionBeforeAcquire
    /\ Stopped => Acquired = UpTo(Len(yielded) - 1)
    /\ gpc = "finished" => Acquired = UpTo(locals.num_steps)

\* C34, amended: the count is fetched first, the descriptions are yielded in
\* increasing order, each before the acquire of its step; a step is acquired
\* at most once, in increasing order, and only if the step count re-read by
\* perform_ecal_step just before exceeds its index; after k yields exactly
\* the steps 0..k-2 have been acquired, and after a full traversal every step
\* exactly once, whenever the instrument has reported the same count throughout
C34_StepAfterEachYieldOnStableCount ==
    /\ CountFetchedFirst
    /\ YieldsInOrder
    /\ DescriptionBeforeAcquire
    /\ \A p, q \in 1..Len(Acquired) : p < q => Acquired[p] < Acquired[q]
    /\ Stopped => \A p \in 1..Len(Acquired) : Acquired[p] <= Len(yielded) - 1
    /\ \A p \in 1..Len(traffic) :
           IsAcquire(traffic[p]) =>
               /\ p > 2
               /\ traffic[p - 2].cmd = "STEPS?"
               /\ traffic[p - 2].arg >= traffic[p].arg
    /\ (Stopped /\ StableCount) => Acquired = UpTo(Len(yielded) - 1)
    /\ (gpc = "finished" /\ StableCount) => Acquired = UpTo(locals.num_steps)

\* a full traversal of two steps on a stable count, the last one saved
C34_Witness ==
    /\ gpc = "finished"
    /\ StableCount
    /\ locals.num_steps = 2
    /\ Acquired = <<1, 2>>
    /\ traffic[Len(traffic)].cmd = "SAVE"

-----------------------------------------------------------------------------
(* The data format of KeysightVNA against DummyVNA: FORM:DATA read, written  *)
(* and used to decode the trace data                                         *)

\* t.startswith(p)
StartsWith(t, p) == Len(t) >= Len(p) /\ SubSeq(t, 1, Len(p)) = p

\* p in t, of two texts
InText(p, t) == \E k \in 0..(Len(t) - Len(p)) : SubSeq(t, k + 1, k + Len(p)) = p

\* the line set_data_format(dformat) writes: f'FORM:DATA {fmt},{bits}'
DataFormatLine(dformat) ==
    LET is_binary_fmt == StartsWith(dformat, Chars("real"))
        is_64_bit == InText(Chars("64"), dformat)
        fmt == IF is_binary_fmt THEN "REAL" ELSE "ASCii"
        bits == IF is_64_bit THEN "64" ELSE IF is_binary_fmt THEN "32" ELSE "0"
    IN  Chars("FORM:DATA ") \o Chars(fmt) \o Chars(",") \o Chars(bits)

\* what get_data_format makes of the reply to FORM:DATA?:
\* rsts = reply.split(','); rsts[0] + str(int(rsts[1]))
DataFormatOf(q) ==
    IF q.status = "raised" THEN q
    ELSE LET rsts == SplitOn(q.value.s, ",")
         IN  IF Len(rsts) < 2 THEN Raised(DecodeError(0))
             ELSE IF ~ParseInt(rsts[2]).ok THEN Raised(DecodeError(0))
             ELSE Returned(StrValue(rsts[1] \o IntToText(ParseInt(rsts[2]).n)))

\* utils.is_binary_format(dformat)
is_binary_format(dformat) == StartsWith(Upper(dformat), Chars("REAL"))

\* utils.get_binary_datatype(dformat)
get_binary_datatype(dformat) == IF InText(Chars("64"), dformat) THEN "d" ELSE "f"

\* the FORM:DATA setting of the simulator
FormData(st) == Chars(st.children["FORMAT"].children["DATA"].text)

\* the lines of a call served one after the other by process_packet, which
\* strips and upper-cases each: the state at the end and the replies in order
RECURSIVE ServeLines(_, _, _)
ServeLines(st, lines, rnd) ==
    IF lines = <<>> THEN [state |-> st, replies |-> <<>>]
    ELSE LET cmd == extract_command(Upper(RStrip(Head(lines))))
             served == sendall(cmd.is_query,
                               VNA_process_command(st, cmd.cmd_tree, cmd.params,
                                                   cmd.is_query, rnd))
             rest == ServeLines(served.state, Tail(lines), rnd)
         IN  [state |-> rest.state, replies |-> <<served.reply>> \o rest.replies]

\* the formats set_data_format is called with: its default, the three of its
\* docstring, and what get_data_format returned last
DataFormats ==
    {Chars("real"), Chars("real,32"), Chars("real,64"), Chars("ascii,0")}
    \cup (IF fcall.name = "get_data_format" /\ fresult.status = "returned"
          THEN {fresult.value.s} ELSE {})

\* KeysightVNA.get_data_format()
get_data_format ==
    /\ dpc = "idle"
    /\ sim = "DummyVNA"
    /\ \E rnd \in PortPairs :
        \E served \in {ServeLines(state, <<Chars("FORM:DATA?")>>, rnd)} :
            /\ dcmd' = extract_command(Chars("FORM:DATA?"))
            /\ state' = served.state
            /\ dreply' = served.replies[1]
            /\ fresult' = DataFormatOf(FacadeQuery(served.replies[1]))
    /\ fcall' = FacadeCall("get_data_format", 0)
    /\ dpc' = "got"
    /\ UNCHANGED <<sim, num_slots, num_channels, wire, recent>>

\* KeysightVNA.set_data_format(dformat); recent keeps the argument and the
\* setting the instrument had before
set_data_format ==
    /\ dpc \in {"idle", "got"}
    /\ sim = "DummyVNA"
    /\ \E dformat \in DataFormats, rnd \in PortPairs :
        \E served \in {ServeLines(state, <<DataFormatLine(dformat)>>, rnd)} :
            /\ dcmd' = extract_command(Upper(DataFormatLine(dformat)))
            /\ state' = served.state
            /\ dreply' = served.replies[1]
            /\ recent' = <<[dformat |-> dformat, was |-> FormData(state)]>>
    /\ fcall' = FacadeCall("set_data_format", 0)
    /\ fresult' = Returned(NoneValue)
    /\ dpc' = "done"
    /\ UNCHANGED <<sim, num_slots, num_channels, wire>>

\* KeysightVNA.capture_snp_data(ports=[0, 1]): the sweep is triggered with
\* write_async, the format read, the trace format and the format written, the
\* points read, the data queried and decoded as binary values of the datatype
\* or as ASCII values, *CLS written.  The result is the decoder used.
capture_snp_data ==
    /\ dpc = "idle"
    /\ sim = "DummyVNA"
    /\ \E rnd \in PortPairs :
        \E before \in {ServeLines(state,
                                  <<Chars("*CLS"), Chars("SENSE1:SWEEP:MODE SINGLE"),
                                    Chars("*OPC"), Chars("*ESR?"),
                                    Chars("FORM:DATA?")>>, rnd)} :
            \E dformat \in {DataFormatOf(FacadeQuery(before.replies[5]))} :
                IF dformat.status = "raised"
                THEN /\ state' = before.state
                     /\ dreply' = before.replies[5]
                     /\ fresult' = dformat
                     /\ recent' = <<>>
                ELSE \E after \in {ServeLines(before.state,
                                       <<Chars("MMEM:STOR:TRAC:FORM:SNP RI"),
                                         DataFormatLine(dformat.value.s),
                                         Chars("SENSE1:SWEEP:POINTS?"),
                                         Chars("CALC:DATA:SNP:PORTs? \"1,2\""),
                                         Chars("*CLS")>>, rnd)} :
                         /\ state' = after.state
                         /\ dreply' = after.replies[4]
                         /\ fresult' = Returned(StrValue(Chars(
                                IF is_binary_format(dformat.value.s)
                                THEN get_binary_datatype(dformat.value.s)
                                ELSE "ascii")))
                         /\ recent' = <<[dformat |-> dformat.value.s,
                                         was |-> FormData(state)]>>
    /\ dcmd' = extract_command(Chars("CALC:DATA:SNP:PORTS? \"1,2\""))
    /\ fcall' = FacadeCall("capture_snp_data", 0)
    /\ dpc' = "done"
    /\ UNCHANGED <<sim, num_slots, num_channels, wire>>

\* the settings an instrument reports for the three formats
ReportedFormats == {"ASCii,+0", "REAL,+32", "REAL,+64"}

\* a KeysightVNA opened on a DummyVNA in one of the three formats
FormInit ==
    /\ cls = "VisaResource"
    /\ ClientOpened
    /\ WaitIdle
    /\ LinkIdle
    /\ NetIdle
    /\ GenIdle
    /\ sim = "DummyVNA"
    /\ num_slots = 0
    /\ num_channels = 0
    /\ \E setting \in ReportedFormats :
         state = SetAt(DummyVNA_state, <<"FORMAT", "DATA">>, Leaf(setting))
    /\ recent = <<>>
    /\ DaqIdle

\* the return of a call; the value get_data_format returned stays at hand
form_next ==
    /\ dpc \in {"done", "got"}
    /\ dpc' = "idle"
    /\ dcmd' = NoCommand
    /\ dreply' = NoneReply
    /\ fcall' = NoFacadeCall
    /\ fresult' = Pending
    /\ recent' = <<>>
    /\ UNCHANGED <<sim, num_slots, num_channels, state, wire>>

FormNext ==
    \/ get_data_format /\ DaqOnly
    \/ set_data_format /\ DaqOnly
    \/ capture_snp_data /\ DaqOnly
    \/ form_next /\ DaqOnly

FormSpec == FormInit /\ [][FormNext]_vars

-----------------------------------------------------------------------------
(* C39: the data format read and written back *)

\* what a FORM:DATA setting says: binary or ASCII transfer, and the bits
Setting(text) ==
    [binary |-> StartsWith(Upper(text), Chars("REAL")),
     bits |-> ParseInt(SplitOn(text, ",")[2]).n]

\* set_data_format was called with what get_data_format returns for the
\* setting the instrument had
WroteBackWhatWasRead ==
    /\ dpc = "done"
    /\ fcall.name \in {"set_data_format", "capture_snp_data"}
    /\ recent # <<>>
    /\ DataFormatOf(Returned(StrValue(recent[1].was)))
           = Returned(StrValue(recent[1].dformat))

\* C39: set_data_format(get_data_format()) leaves the FORM:DATA setting as it
\* was, and capture_snp_data decodes binary values exactly when the instrument
\* is set to a binary format as it answers
C39_FormatRoundTrip ==
    /\ WroteBackWhatWasRead => Setting(FormData(state)) = Setting(recent[1].was)
    /\ (dpc = "done" /\ fcall.name = "capture_snp_data" /\ fresult.status = "returned")
           => ((fresult.value.s # Chars("ascii")) <=> Setting(FormData(state)).binary)

-----------------------------------------------------------------------------
(* NumatoRelay.set_channel: relay writes confirmed by a state read-back.    *)
(* What the module answers to `relay read`, and whether a transfer raises,  *)
(* is the module's choice.                                                   *)

\* one transfer of the call: the line written and, of a query, what came back
Transfer(op, cmd, raised, msg) == [op |-> op, cmd |-> cmd, raised |-> raised, msg |-> msg]

\* what a query of the relay state may bring: the state, another text, or an
\* exception of the transport
Answers ==
    {[raised |-> FALSE, msg |-> "on"], [raised |-> FALSE, msg |-> "off"],
     [raised |-> FALSE, msg |-> ""], [raised |-> TRUE, msg |-> ""]}

\* idx = 1 if 'on' in msg else 0 if 'off' in msg else -1
StateIndex(msg) ==
    IF InText(Chars("on"), Chars(msg)) THEN 1
    ELSE IF InText(Chars("off"), Chars(msg)) THEN 0
    ELSE 0 - 1

\* the attempts of get_channel_state from the k-th on: answers[k] is what the
\* k-th query brings
RECURSIVE ReadState(_, _, _)
ReadState(channel, answers, k) ==
    IF k > Len(answers)
    THEN [transfers |-> <<>>, raised |-> TRUE, idx |-> 0 - 1]
    ELSE LET q == Transfer("query", "relay read", answers[k].raised, answers[k].msg)
         IN  IF ~answers[k].raised /\ StateIndex(answers[k].msg) \in {0, 1}
             THEN [transfers |-> <<q>>, raised |-> FALSE,
                   idx |-> StateIndex(answers[k].msg)]
             ELSE LET rest == ReadState(channel, answers, k + 1)
                  IN  [rest EXCEPT !.transfers = <<q>> \o rest.transfers]

\* get_channel_state(channel) with num_attempts = Len(answers): the queries
\* made, and the index returned or that the call raised
get_channel_state(channel, answers) ==
    IF channel >= num_channels \/ channel < 0
    THEN [transfers |-> <<>>, raised |-> TRUE, idx |-> 0 - 1]
    ELSE ReadState(channel, answers, 1)

\* what the queries of one get_channel_state would bring, num_attempts = 3
AnswerRuns == [1..3 -> Answers]

\* raise Exception(f'Failed to get channel state {msg}. {err}'), and the range check
ChannelStateError ==
    [type |-> "Exception", msg |-> "Failed to get channel state", code |-> 0, at |-> 0]

\* raise Exception(f"Failed to set channel {channel} ...")
SetChannelError ==
    [type |-> "Exception", msg |-> "Failed to set channel", code |-> 0, at |-> 0]

\* the calls followed: a relay of the module and one beyond its last
RelayChannels == {0, 2}

RelayAttempts == {0, 1, 2}

\* the position after an attempt that did not return
NextAttempt ==
    /\ attempts' = attempts + 1
    /\ pc' = "loop"
    /\ outcome' = outcome

\* set_channel confirmed by any answer of the read-back
Confirmed_Any(r, on) == ~r.raised

\* get_channel_state(channel) == on
Confirmed(r, on) == ~r.raised /\ r.idx = (IF on THEN 1 ELSE 0)

\* relay.set_channel(channel, on, delay, numAttempts) is called
Numato_set_channel ==
    /\ pc = "idle"
    /\ \E channel \in RelayChannels, on \in BOOLEAN, numAttempts \in RelayAttempts :
         call' = [name |-> "set_channel", channel |-> channel, on |-> on,
                  numAttempts |-> numAttempts,
                  cmd |-> IF on THEN "relay on" ELSE "relay off"]
    /\ pc' = "loop"
    /\ attempts' = 0
    /\ err' = NoError
    /\ log' = <<>>
    /\ outcome' = Pending
    /\ UNCHANGED <<cls, is_open, resource, leaked, elapsed, replies>>

\* one pass of `for _ in range(numAttempts)`: the relay line is written, the
\* state read back and compared; an exception of either is kept in err
Numato_set_channel_attempt ==
    /\ pc = "loop"
    /\ attempts < call.numAttempts
    /\ \/ /\ log' = Append(log, Transfer("write", call.cmd, TRUE, ""))
          /\ err' = TransportError(Len(log) + 1)
          /\ NextAttempt
       \/ \E answers \in AnswerRuns :
            \E r \in {get_channel_state(call.channel, answers)} :
              /\ log' = Append(log, Transfer("write", call.cmd, FALSE, "")) \o r.transfers
              /\ IF Confirmed(r, call.on)
                 THEN /\ pc' = "done"
                      /\ outcome' = Returned(NoneValue)
                      /\ UNCHANGED <<attempts, err>>
                 ELSE /\ NextAttempt
                      /\ err' = IF r.raised THEN ChannelStateError
                                ELSE err
    /\ UNCHANGED <<cls, is_open, resource, leaked, elapsed, replies, call>>

\* the loop has ended: raise Exception(f"Failed to set channel ...")
Numato_set_channel_raise ==
    /\ pc = "loop"
    /\ attempts >= call.numAttempts
    /\ pc' = "done"
    /\ outcome' = Raised(SetChannelError)
    /\ UNCHANGED <<cls, is_open, resource, leaked, elapsed, replies, call,
                   attempts, err, log>>

\* the caller goes on
Numato_return ==
    /\ pc = "done"
    /\ pc' = "idle"
    /\ call' = NoCall
    /\ attempts' = 0
    /\ err' = NoError
    /\ log' = <<>>
    /\ outcome' = Pending
    /\ UNCHANGED <<cls, is_open, resource, leaked, elapsed, replies>>

\* a NumatoRelay of two relays, opened
RelayInit ==
    /\ cls = "VisaResource"
    /\ ClientOpened
    /\ WaitIdle
    /\ LinkIdle
    /\ NetIdle
    /\ GenIdle
    /\ sim = "none"
    /\ num_slots = 1
    /\ num_channels = 2
    /\ state = Dict(<<>>)
    /\ recent = <<>>
    /\ DaqIdle

RelayNext ==
    \/ Numato_set_channel /\ ClientOnly
    \/ Numato_set_channel_attempt /\ ClientOnly
    \/ Numato_set_channel_raise /\ ClientOnly
    \/ Numato_return /\ ClientOnly

RelaySpec == RelayInit /\ [][RelayNext]_vars

-----------------------------------------------------------------------------
(* C40: NumatoRelay.set_channel *)

InSetChannel == call.name = "set_channel"

\* the relay on/off lines of the call so far
RelayWrites == {w \in 1..Len(log) : log[w].op = "write"}

\* the transfer is a read-back that reports the requested state
ReportsRequested(t) ==
    /\ t.op = "query"
    /\ ~t.raised
    /\ StateIndex(t.msg) = (IF call.on THEN 1 ELSE 0)

\* C40: set_channel(channel, on, numAttempts = N) writes the relay line at most
\* N times; it returns only when the last transfer is a read-back that
\* reports the requested state, made after a relay write that went through,
\* with nothing but read-backs in between; when it raises, N attempts have
\* been made and no read-back has reported the requested state
C40_ReturnsOnlyConfirmed ==
    InSetChannel =>
        /\ Cardinality(RelayWrites) <= call.numAttempts
        /\ pc = "done" => outcome.status \in {"returned", "raised"}
        /\ (pc = "done" /\ outcome.status = "returned") =>
               /\ log # <<>>
               /\ ReportsRequested(log[Len(log)])
               /\ \E w \in RelayWrites :
                      /\ ~log[w].raised
                      /\ log[w].cmd = (IF call.on THEN "relay on" ELSE "relay off")
                      /\ \A q \in (w + 1)..Len(log) : log[q].op = "query"
        /\ (pc = "done" /\ outcome.status = "raised") =>
               /\ attempts = call.numAttempts
               /\ Cardinality(RelayWrites) = call.numAttempts
               /\ \A q \in 1..Len(log) : ~ReportsRequested(log[q])

\* the second attempt is confirmed, after a first whose read-back reported the
\* other state
C40_Witness ==
    /\ InSetChannel
    /\ pc = "done"
    /\ outcome.status = "returned"
    /\ call.on
    /\ Cardinality(RelayWrites) = 2
    /\ \E q \in 1..Len(log) : log[q].op = "query" /\ log[q].msg = "off"

====
